---- MODULE Spec2Model ----
(***************************************************************************)
(* A model of the radio control plane of jtarrio/signals:                  *)
(*   - Radio (src/src/radio/radio.ts, the SingleThread based class), its   *)
(*     Transfers controller and the SingleThread command executor;         *)
(*   - the SignalSource contract as seen by the radio: every call into the *)
(*     source is a promise the source settles at a time of its choosing;   *)
(*   - PushSource, RealTimeSource and their shared PendingReadRing.        *)
(* One step of the model is one synchronous run of JavaScript: from the    *)
(* moment a callback or continuation is entered up to its next await.      *)
(***************************************************************************)
EXTENDS Integers, Sequences, FiniteSets, TLC

(***************************************************************************)
(* Bounds of the model.                                                    *)
(***************************************************************************)
\* Commands the user submits to the radio in one behaviour.
MaxCmds == 3
\* Sources the provider hands out in one behaviour (start commands).
MaxSessions == 2
\* Slots of a buffer pool.
MaxPoolCount == 2
\* The longest array asked of a buffer pool.
MaxGetLength == 3
\* Promises handed out by readSamples of a source in one behaviour.
MaxReads == 3
\* Functions handed to one SingleThread, and the awaits inside one of them.
MaxFns == 3
MaxAwaits == 1
\* Calls of send and calls of receive on one Channel.
MaxSends == 4
MaxReceives == 4
\* Coefficients of a FIR filter, samples of the stream it filters, and
\* samples of one block.
MaxTaps == 5
MaxFirStream == 4
MaxBlock == 3
\* Parts (real or imaginary, of any sample) of the input of an FFT that are
\* not zero.
MaxNonZero == 2
\* Length of the stream: the samples pushed into a PushSource in one behaviour,
\* and the last stream position a tick of a RealTimeSource is taken at.
MaxStream == 4

(***************************************************************************)
(* Constructor arguments of the two rings of a source.  Both classes take  *)
(* their size as an argument; the sources pass max(65536, sampleRate / 10) *)
(* and 8, the model instantiates them at sizes a short stream fills, wraps *)
(* and overflows.                                                          *)
(***************************************************************************)
\* new Float32RingBuffer(capacity)
SampleRingCapacity == 2
\* new PendingReadRing(length)
ReadRingLength == 2
\* The step between two values of a sample given to an FFT.
FftUnit == 16

\* Sizes of reads and of pushes: up to one more than the sample ring holds.
MaxReadSize == SampleRingCapacity + 1
MaxPushSize == SampleRingCapacity + 1
MaxPushed == MaxStream
MaxTime == MaxStream
\* Any distance between two ticks.
MaxAdvance == MaxStream
\* The ring buffer on its own: one slot more than the sample ring of a source,
\* stores and destinations of up to one element more than it holds, and a
\* stream twice as long as that of a source.
BufCapacity == SampleRingCapacity + 1
MaxStoreSize == BufCapacity + 1
MaxStored == 2 * MaxStream
\* Rounds of the loop of RealTimeSource.frame the model follows: more than one
\* refill and one resolution per pending read.
MaxRounds == 2 * ReadRingLength + 2

(***************************************************************************)
(* Program constants and value domains.                                    *)
(***************************************************************************)
DefaultSampleRate == 1024000
DefaultFrequency == 88500000
PARALLEL_BUFFERS == 2
\* What a source's setParameter resolves with for a key it does not know.
Undefined == 0
\* The content of a Float32Array that was never written (the code has 0 there;
\* the model keeps it apart from the stream sample numbered 0).
Blank == -1

Rates == {DefaultSampleRate, 2 * DefaultSampleRate}
Freqs == {DefaultFrequency, DefaultFrequency + 100000}
ParamKeys == {"gain", "bias"}
\* The radio hands parameter values on untouched: one value, apart from the
\* Undefined a source may answer with, tells every case apart.
ParamValues == {1}

Sessions == 1..MaxSessions
Loops == 1..PARALLEL_BUFFERS

VARIABLES
    \* Radio fields
    state,            \* State.OFF / State.PLAYING
    sampleRate,       \* Radio.sampleRate
    frequency,        \* Radio.frequency
    parameterValues,  \* Radio.parameterValues, a Map in insertion order
    source,           \* Radio.source: the session of the current source, 0 = unset
    transfers,        \* Radio.transfers: the session of the current Transfers, 0 = unset
    \* SingleThread
    cmds,             \* the functions given to run() that have not completed yet
    nSubmitted,       \* run() calls so far
    nStarted,         \* functions entered so far
    \* Sources and Transfers objects, one per session
    nSources,         \* sources handed out by the provider so far
    sess,
    \* What the last step did (outputs of a step, not program state)
    emitted,          \* events dispatched by the step
    called,           \* source calls issued by the step
    settled,          \* the source call the step settled, if any
    \* History
    startCalls,       \* the source calls of the start command in progress
    pendingRate,      \* rate given to Radio.setSampleRate and not yet used by a start
    \* A PushSource or a RealTimeSource on its own
    srcKind,          \* "push" or "realtime"
    ringI,            \* the Float32RingBuffer I (Q is stored and moved alongside it)
    pendingReads,     \* the PendingReadRing
    lastSampleInBuffer, \* RealTimeSource.lastSampleInBuffer
    running,          \* RealTimeSource.running
    firstTs,          \* RealTimeSource.firstTs is set
    curSample,        \* the stream position of the last tick
    nPushed,          \* samples given to PushSource.newSamples so far
    nIssued,          \* readSamples calls so far
    resolved,         \* the reads the last step settled, in the order it settled them
    nSettled,         \* reads settled so far
    threw,            \* the last call threw too-many-reads
    lastDelivered,    \* the last stream sample handed to a reader, NoSample if none
    frameSteps,       \* what the rounds of the loop of the last frame() did, in order
    frameStuck,       \* the loop of a frame() did not end: the source's thread is held
    centerFrequency,  \* PushSource.centerFrequency
    pushedAt,         \* the center frequency each sample in I, or in a block just
                      \* resolved, was pushed at, by sample number
    blockFrequency,   \* the frequency of the blocks the last step resolved
    \* A Float32RingBuffer on its own
    ringBuffer,       \* the ring buffer
    shadowBuffer,     \* a ring buffer given the same store calls and no moveTo
    nStored,          \* samples given to store so far
    lastOp,           \* the last call: "none", "store", "moveTo", "copyTo"
    dest,             \* the destination array after the last moveTo / copyTo
    ret,              \* what the last moveTo returned
    lastMoved,        \* the last sample a moveTo copied out, NoSample if none
    \* A Buffer (Float32Buffer, U8Buffer) on its own
    buffers,          \* Buffer.buffers: the array of each slot, [id, len]
    current,          \* Buffer.current
    nMade,            \* arrays made so far; the id of an array is its number
    got,              \* what the last get returned, NoView before the first get
    \* A SingleThread with the functions handed to run
    chain,            \* the promises run returned, oldest first; this.promise is the last
    \* A Channel with its senders and receivers
    sendQueue,        \* Channel.sendQueue: messages waiting, [msg, ack]
    rcvQueue,         \* Channel.rcvQueue: the receive calls waiting
    sends,            \* the promise each send call returned, in call order
    receives,         \* the promise each receive call returned, in call order
    \* A FIRFilter with the blocks it filters
    coefs,            \* FIRFilter.coefs
    curSamples,       \* FIRFilter.curSamples
    firStream,        \* every sample given to inPlace so far, in order
    firIn,            \* the block given to the last inPlace
    firOut,           \* the same block after the last inPlace
    \* An FFT with one input
    fftLength,        \* FFT.length
    fftOut,           \* FFT.out: the pool of output arrays
    fftMem,           \* the content of each array of the pool, by array id
    fftIn,            \* the input: [real, imag], imag NotGiven if left out
    fftFwd,           \* what transform returned: the ids of [outReal, outImag]
    fftBack           \* what reverse returned for it

radioVars == <<state, sampleRate, frequency, parameterValues, source, transfers,
               cmds, nSubmitted, nStarted, nSources, sess,
               emitted, called, settled, startCalls, pendingRate>>

srcVars == <<srcKind, ringI, pendingReads, lastSampleInBuffer, running, firstTs,
             curSample, nPushed, nIssued, resolved, nSettled, threw, lastDelivered,
             centerFrequency, pushedAt, blockFrequency, frameSteps, frameStuck>>

frameVars == <<frameSteps, frameStuck>>

freqVars == <<centerFrequency, pushedAt, blockFrequency>>

bufVars == <<ringBuffer, shadowBuffer, nStored, lastOp, dest, ret, lastMoved>>

poolVars == <<buffers, current, nMade, got>>

chanVars == <<sendQueue, rcvQueue, sends, receives>>

firVars == <<coefs, curSamples, firStream, firIn, firOut>>

fftVars == <<fftLength, fftOut, fftMem, fftIn, fftFwd, fftBack>>

libVars == <<chain, chanVars, firVars, fftVars>>

vars == <<radioVars, srcVars, bufVars, poolVars, libVars>>

(***************************************************************************)
(* Map<ParameterKey, any>: a sequence of entries in insertion order.       *)
(***************************************************************************)
MapHas(m, k) == \E i \in 1..Len(m) : m[i].name = k

MapGet(m, k) ==
    IF MapHas(m, k) THEN m[CHOOSE i \in 1..Len(m) : m[i].name = k].value
    ELSE Undefined

\* Map.set keeps the position of a key that is already present.
MapSet(m, k, v) ==
    IF MapHas(m, k)
    THEN [i \in 1..Len(m) |-> IF m[i].name = k THEN [name |-> k, value |-> v] ELSE m[i]]
    ELSE Append(m, [name |-> k, value |-> v])

(***************************************************************************)
(* Records.                                                                *)
(***************************************************************************)
NewTransfers ==
    [ exists |-> FALSE,          \* new Transfers(...) was run for the session
      closed |-> FALSE,          \* source.close() was called
      rate |-> 0,                \* Transfers.sampleRate
      buffersWanted |-> 0,
      buffersRunning |-> 0,
      stopCallback |-> FALSE,    \* FALSE: nilCallback, TRUE: resolver of the stopStream promise
      stopResolved |-> FALSE,    \* the promise the stop command awaits is resolved
      ss |-> "none",             \* startStream: none / await / done / failed
      loop |-> [l \in Loops |-> "idle"],   \* readStream: idle / reading / ended / failed
      reads |-> <<>> ]           \* readSamples calls in flight on the source, oldest first

Call(op, s, name, value) == [op |-> op, s |-> s, name |-> name, value |-> value]

\* The settlement of a source call: `who` is the seq of the command that
\* awaited it, 0 for a call made by a Transfers object.
NoSettle == [kind |-> "none", value |-> 0, who |-> 0]
Resolved(who, v) == [kind |-> "resolve", value |-> v, who |-> who]
Rejected(who) == [kind |-> "reject", value |-> 0, who |-> who]

Command(type, name, value) ==
    [type |-> type, name |-> name, value |-> value, pc |-> "queued", idx |-> 0, seq |-> 0]

Commands ==
    {Command("start", "", 0), Command("stop", "", 0)}
    \cup {Command("frequency", "", f) : f \in Freqs}
    \cup {Command("parameter", k, v) : k \in ParamKeys, v \in ParamValues}

RadioInit ==
    /\ state = "OFF"
    /\ sampleRate = DefaultSampleRate
    /\ frequency = DefaultFrequency
    /\ parameterValues = <<>>
    /\ source = 0
    /\ transfers = 0
    /\ cmds = <<>>
    /\ nSubmitted = 0
    /\ nStarted = 0
    /\ nSources = 0
    /\ sess = [s \in Sessions |-> NewTransfers]
    /\ emitted = <<>>
    /\ called = <<>>
    /\ settled = NoSettle
    /\ startCalls = <<>>
    /\ pendingRate = 0

(***************************************************************************)
(* Helpers of the steps.                                                   *)
(***************************************************************************)
Remove(q, i) == [j \in 1..(Len(q) - 1) |-> IF j < i THEN q[j] ELSE q[j + 1]]

\* The function given to run() returns: its promise resolves.
Complete(i) == cmds' = Remove(cmds, i)

\* The function given to run() awaits a source call.
Await(i, pc, idx) == cmds' = [cmds EXCEPT ![i].pc = pc, ![i].idx = idx]

Out(e, c, s) == emitted' = e /\ called' = c /\ settled' = s

Event(type) == <<type>>

\* start commands that will still ask the provider for a source
StartsPending ==
    Cardinality({i \in 1..Len(cmds) :
                    cmds[i].type = "start" /\ cmds[i].pc \in {"queued", "get"}})

(***************************************************************************)
(* The user's side: the command functions of Radio and SingleThread.run.   *)
(***************************************************************************)
\* run(fn): this.promise = this.promise.then(() => fn()). The function is
\* queued behind every function submitted before it.
Submit(c) ==
    /\ nSubmitted < MaxCmds
    /\ c.type = "start" => nSources + StartsPending < MaxSessions
    /\ cmds' = Append(cmds, [c EXCEPT !.seq = nSubmitted + 1])
    /\ nSubmitted' = nSubmitted + 1
    /\ Out(<<>>, <<>>, NoSettle)
    /\ UNCHANGED <<state, sampleRate, frequency, parameterValues, source, transfers,
                   nStarted, nSources, sess, startCalls, pendingRate>>

\* Radio.setSampleRate: not a command, it assigns the field at once.
SetSampleRate(r) ==
    /\ sampleRate' = r
    /\ pendingRate' = r
    /\ Out(<<>>, <<>>, NoSettle)
    /\ UNCHANGED <<state, frequency, parameterValues, source, transfers,
                   cmds, nSubmitted, nStarted, nSources, sess, startCalls>>

\* The promise chain of SingleThread: the i-th pending function is entered
\* when the promise of the one submitted before it has resolved, that is when
\* every function submitted before it has completed.
CanRunUnchained(i) == TRUE

CanRun(i) == i = 1

(***************************************************************************)
(* Radio.start                                                             *)
(***************************************************************************)
RunStart(i) ==
    /\ cmds[i].type = "start"
    /\ IF state # "OFF"
       THEN /\ Complete(i)
            /\ Out(<<>>, <<>>, NoSettle)
       ELSE /\ Await(i, "get", 0)
            /\ Out(<<>>, <<Call("get", 0, "", 0)>>, NoSettle)
    /\ UNCHANGED <<state, sampleRate, frequency, parameterValues, source, transfers,
                   nSubmitted, nSources, sess, startCalls, pendingRate>>

\* catch (e) { dispatchEvent(error) } of a command
CommandCatch(i) ==
    /\ Complete(i)
    /\ Out(Event("error"), <<>>, Rejected(cmds[i].seq))

\* this.source = await this.sourceProvider.get();
\* then the call of this.source.setSampleRate(this.sampleRate)
StartGot(i) ==
    /\ cmds[i].type = "start" /\ cmds[i].pc = "get"
    /\ nSources < MaxSessions
    /\ \/ /\ nSources' = nSources + 1
          /\ source' = nSources + 1
          /\ Await(i, "setSampleRate", 0)
          /\ LET c == Call("setSampleRate", nSources + 1, "", sampleRate)
             IN  /\ Out(<<>>, <<c>>, Resolved(cmds[i].seq, 0))
                 /\ startCalls' = <<c>>
          /\ pendingRate' = 0
       \/ /\ CommandCatch(i)
          /\ UNCHANGED <<nSources, source, startCalls, pendingRate>>
    /\ UNCHANGED <<state, sampleRate, frequency, parameterValues, transfers,
                   nSubmitted, nStarted, sess>>

\* this.sampleRate = await this.source.setSampleRate(this.sampleRate);
\* then the call of this.source.setCenterFrequency(this.frequency)
StartRateSet(i) ==
    /\ cmds[i].type = "start" /\ cmds[i].pc = "setSampleRate"
    /\ \/ \E r \in Rates :
            /\ sampleRate' = r
            /\ Await(i, "setCenterFrequency", 0)
            /\ LET c == Call("setCenterFrequency", source, "", frequency)
               IN  /\ Out(<<>>, <<c>>, Resolved(cmds[i].seq, r))
                   /\ startCalls' = Append(startCalls, c)
       \/ /\ CommandCatch(i)
          /\ UNCHANGED <<sampleRate, startCalls>>
    /\ UNCHANGED <<state, frequency, parameterValues, source, transfers,
                   nSubmitted, nStarted, nSources, sess, pendingRate>>

\* for (let [name, value] of this.parameterValues.entries())
\*   await this.source.setParameter(name, value);
\* await this.source.startReceiving();
\* The call issued after `done` entries of the map were replayed.
ReplayNoneCall(m, s, done) == Call("startReceiving", s, "", 0)

ReplayCall(m, s, done) ==
    IF done < Len(m)
    THEN Call("setParameter", s, m[done + 1].name, m[done + 1].value)
    ELSE Call("startReceiving", s, "", 0)

StartReplay(i, done, res) ==
    LET c == ReplayCall(parameterValues, source, done)
    IN  /\ Await(i, c.op, done + 1)
        /\ Out(<<>>, <<c>>, res)
        /\ startCalls' = Append(startCalls, c)

\* this.frequency = await this.source.setCenterFrequency(this.frequency);
StartFrequencySet(i) ==
    /\ cmds[i].type = "start" /\ cmds[i].pc = "setCenterFrequency"
    /\ \/ \E f \in Freqs :
            /\ frequency' = f
            /\ StartReplay(i, 0, Resolved(cmds[i].seq, f))
       \/ /\ CommandCatch(i)
          /\ UNCHANGED <<frequency, startCalls>>
    /\ UNCHANGED <<state, sampleRate, parameterValues, source, transfers,
                   nSubmitted, nStarted, nSources, sess, pendingRate>>

\* one await this.source.setParameter(name, value) of the replay resolves;
\* its value is not used
StartParameterSet(i) ==
    /\ cmds[i].type = "start" /\ cmds[i].pc = "setParameter"
    /\ \/ StartReplay(i, cmds[i].idx, Resolved(cmds[i].seq, 0))
       \/ /\ CommandCatch(i)
          /\ UNCHANGED startCalls
    /\ UNCHANGED <<state, sampleRate, frequency, parameterValues, source, transfers,
                   nSubmitted, nStarted, nSources, sess, pendingRate>>

\* new Transfers(source, sampleReceiver, radio, sampleRate, options), then
\* Transfers.startStream() up to its await: it calls source.startReceiving()
\* a second time, and start() does not wait for it.
StartStreamCall(s) ==
    [NewTransfers EXCEPT !.exists = TRUE,
                         !.closed = sess[s].closed,
                         !.rate = sampleRate,
                         !.ss = "await"]

\* await this.source.startReceiving(); this.transfers = new Transfers(...);
\* this.transfers.startStream(); this.state = State.PLAYING; 'started'
StartReceiving(i) ==
    /\ cmds[i].type = "start" /\ cmds[i].pc = "startReceiving"
    /\ \/ /\ transfers' = source
          /\ sess' = [sess EXCEPT ![source] = StartStreamCall(source)]
          /\ state' = "PLAYING"
          /\ Complete(i)
          /\ Out(Event("started"), <<Call("startReceiving", source, "", 0)>>, Resolved(cmds[i].seq, 0))
       \/ /\ CommandCatch(i)
          /\ UNCHANGED <<transfers, sess, state>>
    /\ startCalls' = <<>>
    /\ UNCHANGED <<sampleRate, frequency, parameterValues, source,
                   nSubmitted, nStarted, nSources, pendingRate>>

(***************************************************************************)
(* Radio.stop and Transfers.stopStream                                     *)
(***************************************************************************)
\* stopStream(): returns at once when no loop runs and none is wanted,
\* otherwise keeps the resolver in stopCallback and sets buffersWanted = 0.
StopStream(t) ==
    IF t.buffersRunning = 0 /\ t.buffersWanted = 0
    THEN [t EXCEPT !.stopResolved = TRUE]
    ELSE [t EXCEPT !.stopCallback = TRUE, !.stopResolved = FALSE, !.buffersWanted = 0]

RunStop(i) ==
    /\ cmds[i].type = "stop"
    /\ IF state # "PLAYING"
       THEN /\ Complete(i)
            /\ UNCHANGED sess
       ELSE /\ Await(i, "stopStream", 0)
            /\ sess' = [sess EXCEPT ![transfers] = StopStream(sess[transfers])]
    /\ Out(<<>>, <<>>, NoSettle)
    /\ UNCHANGED <<state, sampleRate, frequency, parameterValues, source, transfers,
                   nSubmitted, nSources, startCalls, pendingRate>>

\* await this.transfers!.stopStream() resumes; the call of this.source!.close()
StopStreamed(i) ==
    /\ cmds[i].type = "stop" /\ cmds[i].pc = "stopStream"
    /\ sess[transfers].stopResolved
    /\ Await(i, "close", 0)
    /\ sess' = [sess EXCEPT ![transfers].stopResolved = FALSE, ![source].closed = TRUE]
    /\ Out(<<>>, <<Call("close", source, "", 0)>>, NoSettle)
    /\ UNCHANGED <<state, sampleRate, frequency, parameterValues, source, transfers,
                   nSubmitted, nStarted, nSources, startCalls, pendingRate>>

\* await this.source!.close(); this.state = State.OFF; 'stopped'
StopClosed(i) ==
    /\ cmds[i].type = "stop" /\ cmds[i].pc = "close"
    /\ \/ /\ state' = "OFF"
          /\ Complete(i)
          /\ Out(Event("stopped"), <<>>, Resolved(cmds[i].seq, 0))
       \/ /\ CommandCatch(i)
          /\ UNCHANGED state
    /\ UNCHANGED <<sampleRate, frequency, parameterValues, source, transfers,
                   nSubmitted, nStarted, nSources, sess, startCalls, pendingRate>>

(***************************************************************************)
(* Radio.setFrequency                                                      *)
(***************************************************************************)
RunFrequency(i) ==
    /\ cmds[i].type = "frequency"
    /\ IF state = "OFF"
       THEN /\ frequency' = cmds[i].value
            /\ Complete(i)
            /\ Out(<<>>, <<>>, NoSettle)
       ELSE IF frequency # cmds[i].value
       THEN /\ Await(i, "setCenterFrequency", 0)
            /\ Out(<<>>, <<Call("setCenterFrequency", source, "", cmds[i].value)>>, NoSettle)
            /\ UNCHANGED frequency
       ELSE /\ Complete(i)
            /\ Out(<<>>, <<>>, NoSettle)
            /\ UNCHANGED frequency
    /\ UNCHANGED <<state, sampleRate, parameterValues, source, transfers,
                   nSubmitted, nSources, sess, startCalls, pendingRate>>

\* A setFrequency that assigns the field before the source has answered.
FrequencySetEarly(i) ==
    /\ cmds[i].type = "frequency" /\ cmds[i].pc = "setCenterFrequency"
    /\ frequency' = cmds[i].value
    /\ \/ /\ Complete(i)
          /\ Out(<<>>, <<>>, Resolved(cmds[i].seq, cmds[i].value))
       \/ CommandCatch(i)
    /\ UNCHANGED <<state, sampleRate, parameterValues, source, transfers,
                   nSubmitted, nStarted, nSources, sess, startCalls, pendingRate>>

\* this.frequency = await this.source!.setCenterFrequency(freq);
FrequencySet(i) ==
    /\ cmds[i].type = "frequency" /\ cmds[i].pc = "setCenterFrequency"
    /\ \/ \E f \in Freqs :
            /\ frequency' = f
            /\ Complete(i)
            /\ Out(<<>>, <<>>, Resolved(cmds[i].seq, f))
       \/ /\ CommandCatch(i)
          /\ UNCHANGED frequency
    /\ UNCHANGED <<state, sampleRate, parameterValues, source, transfers,
                   nSubmitted, nStarted, nSources, sess, startCalls, pendingRate>>

(***************************************************************************)
(* Radio.setParameter and Radio.getParameter                               *)
(***************************************************************************)
getParameter(k) == MapGet(parameterValues, k)

RunParameter(i) ==
    /\ cmds[i].type = "parameter"
    /\ IF state = "OFF"
       THEN /\ parameterValues' = MapSet(parameterValues, cmds[i].name, cmds[i].value)
            /\ Complete(i)
            /\ Out(<<>>, <<>>, NoSettle)
       ELSE /\ Await(i, "setParameter", 0)
            /\ Out(<<>>, <<Call("setParameter", source, cmds[i].name, cmds[i].value)>>,
                   NoSettle)
            /\ UNCHANGED parameterValues
    /\ UNCHANGED <<state, sampleRate, frequency, source, transfers,
                   nSubmitted, nSources, sess, startCalls, pendingRate>>

\* this.parameterValues.set(parameter, await this.source!.setParameter(parameter, value));
\* the source resolves with the value it adopted, or with nothing
ParameterSet(i) ==
    /\ cmds[i].type = "parameter" /\ cmds[i].pc = "setParameter"
    /\ \/ \E v \in ParamValues \cup {Undefined} :
            /\ parameterValues' = MapSet(parameterValues, cmds[i].name, v)
            /\ Complete(i)
            /\ Out(<<>>, <<>>, Resolved(cmds[i].seq, v))
       \/ /\ CommandCatch(i)
          /\ UNCHANGED parameterValues
    /\ UNCHANGED <<state, sampleRate, frequency, source, transfers,
                   nSubmitted, nStarted, nSources, sess, startCalls, pendingRate>>

(***************************************************************************)
(* SingleThread: a queued function is entered.                             *)
(***************************************************************************)
Run(i) ==
    /\ cmds[i].pc = "queued"
    /\ CanRun(i)
    /\ nStarted' = nStarted + 1
    /\ \/ RunStart(i)
       \/ RunStop(i)
       \/ RunFrequency(i)
       \/ RunParameter(i)

(***************************************************************************)
(* Transfers.startStream and Transfers.readStream                          *)
(***************************************************************************)
\* readStream() leaves its loop: --buffersRunning, and the last one out
\* calls stopCallback and resets it to nilCallback.
LoopExit(t, l, how) ==
    LET n == t.buffersRunning - 1
    IN  [t EXCEPT !.loop[l] = how,
                  !.buffersRunning = n,
                  !.stopResolved = IF n = 0 /\ t.stopCallback THEN TRUE ELSE @,
                  !.stopCallback = IF n = 0 THEN FALSE ELSE @]

\* while (this.buffersRunning <= this.buffersWanted)
\*   const b = await this.source.readSamples(this.samplesPerBuf);
LoopTest(t, l) ==
    IF t.buffersRunning <= t.buffersWanted
    THEN [t EXCEPT !.loop[l] = "reading", !.reads = Append(@, l)]
    ELSE LoopExit(t, l, "ended")

\* while (this.buffersRunning < this.buffersWanted) { ++this.buffersRunning; this.readStream(); }
RECURSIVE LaunchLoops(_)
LaunchLoops(t) ==
    IF t.buffersRunning < t.buffersWanted
    THEN LET l == t.buffersRunning + 1
         IN  LaunchLoops(LoopTest([t EXCEPT !.buffersRunning = l], l))
    ELSE t

\* startStream() resumes after await this.source.startReceiving()
StartStreamResumed(s) ==
    /\ sess[s].ss = "await"
    /\ \/ LET t == LaunchLoops([sess[s] EXCEPT !.ss = "done",
                                               !.buffersWanted = PARALLEL_BUFFERS])
          IN  /\ sess' = [sess EXCEPT ![s] = t]
              /\ Out(<<>>, [k \in 1..Len(t.reads) |-> Call("readSamples", s, "", t.reads[k])],
                     Resolved(0, 0))
       \/ /\ sess' = [sess EXCEPT ![s].ss = "failed"]
          /\ Out(<<>>, <<>>, Rejected(0))
    /\ UNCHANGED <<state, sampleRate, frequency, parameterValues, source, transfers,
                   cmds, nSubmitted, nStarted, nSources, startCalls, pendingRate>>

\* this.sampleReceiver.setSampleRate(this.sampleRate), the first statement of
\* startStream(), has run for the Transfers t.
ReceiverRateSet(t) == t.ss # "none"

\* A source that resolves the read issued last instead of the oldest one.
ReadResolvedNewest(s) ==
    /\ sess[s].reads # <<>>
    /\ LET n == Len(sess[s].reads)
           l == sess[s].reads[n]
           t == LoopTest([sess[s] EXCEPT !.reads = SubSeq(@, 1, n - 1)], l)
       IN  /\ sess' = [sess EXCEPT ![s] = t]
           /\ Out(<<>>,
                  IF t.loop[l] = "reading" THEN <<Call("readSamples", s, "", l)>> ELSE <<>>,
                  Resolved(0, l))
    /\ UNCHANGED <<state, sampleRate, frequency, parameterValues, source, transfers,
                   cmds, nSubmitted, nStarted, nSources, startCalls, pendingRate>>

\* The source resolves the oldest read in flight: the loop hands the block to
\* radio.onReceiveSamples and sampleReceiver.receiveSamples and tests its
\* condition again.
ReadResolved(s) ==
    /\ sess[s].reads # <<>>
    /\ LET l == Head(sess[s].reads)
           t == LoopTest([sess[s] EXCEPT !.reads = Tail(@)], l)
       IN  /\ sess' = [sess EXCEPT ![s] = t]
           /\ Out(<<>>,
                  IF t.loop[l] = "reading" THEN <<Call("readSamples", s, "", l)>> ELSE <<>>,
                  Resolved(0, l))
    /\ UNCHANGED <<state, sampleRate, frequency, parameterValues, source, transfers,
                   cmds, nSubmitted, nStarted, nSources, startCalls, pendingRate>>

\* The source rejects the oldest read in flight: catch (e) dispatches an
\* 'error' event with a RadioError of type TransferError that has e as cause.
ReadRejected(s) ==
    /\ sess[s].reads # <<>>
    /\ LET l == Head(sess[s].reads)
       IN  sess' = [sess EXCEPT ![s] = LoopExit([sess[s] EXCEPT !.reads = Tail(@)], l, "failed")]
    /\ Out(Event("transferError"), <<>>, Rejected(0))
    /\ UNCHANGED <<state, sampleRate, frequency, parameterValues, source, transfers,
                   cmds, nSubmitted, nStarted, nSources, startCalls, pendingRate>>

(***************************************************************************)
(* RingBuffer (Float32RingBuffer): positions are 0-based as in the code,   *)
(* sequences 1-based.                                                      *)
(***************************************************************************)
Min(a, b) == IF a < b THEN a ELSE b

NewRingBuffer(size) ==
    [buffer |-> [j \in 1..size |-> Blank], readPos |-> 0, writePos |-> 0, filled |-> 0]

RingCapacity(rb) == Len(rb.buffer)

\* doCopy(count, src, srcOffset, dst, dstOffset): count values, both offsets
\* wrapping around; count never exceeds either length.
DoCopy(count, src, srcOffset, dst, dstOffset) ==
    [ dst |-> [j \in 1..Len(dst) |->
                 LET k == (j - 1 - dstOffset + Len(dst)) % Len(dst)
                 IN  IF k < count THEN src[((srcOffset + k) % Len(src)) + 1] ELSE dst[j]],
      srcOffset |-> IF count > 0 THEN (srcOffset + count) % Len(src) ELSE srcOffset,
      dstOffset |-> IF count > 0 THEN (dstOffset + count) % Len(dst) ELSE dstOffset ]

\* store(data)
RingStore(rb, data) ==
    LET count == Min(Len(data), RingCapacity(rb))
        c == DoCopy(count, data, 0, rb.buffer, rb.writePos)
        filled == Min(RingCapacity(rb), rb.filled + count)
    IN  [ buffer |-> c.dst,
          writePos |-> c.dstOffset,
          filled |-> filled,
          readPos |-> IF filled = RingCapacity(rb) THEN c.dstOffset ELSE rb.readPos ]

\* A moveTo that copies the samples out and does not consume them.
RingMoveToKeep(rb, data) ==
    LET count == Min(Min(Len(data), RingCapacity(rb)), rb.filled)
        c == DoCopy(count, rb.buffer, rb.readPos, data, 0)
    IN  [ring |-> rb, data |-> IF count = 0 THEN data ELSE c.dst, count |-> count]

\* moveTo(data) for a destination that held `data`: the ring after it, the
\* destination after it and the count returned.
RingMoveTo(rb, data) ==
    LET count == Min(Min(Len(data), RingCapacity(rb)), rb.filled)
        c == DoCopy(count, rb.buffer, rb.readPos, data, 0)
    IN  IF count = 0
        THEN [ring |-> rb, data |-> data, count |-> 0]
        ELSE [ ring |-> [rb EXCEPT !.readPos = c.srcOffset, !.filled = @ - count],
               data |-> c.dst,
               count |-> count ]

\* clear()
RingClear(rb) == [rb EXCEPT !.readPos = 0, !.writePos = 0, !.filled = 0]

\* A buffer of n values handed out by a pool, before it is written.
PoolGet(n) == [j \in 1..n |-> Blank]

\* No stream sample: the stream of a RealTimeSource starts anew, at sample 0,
\* with every startReceiving.
NoSample == Blank

\* The stream samples numbered from..(from + n - 1).
Samples(from, n) == [j \in 1..n |-> from + j - 1]

(***************************************************************************)
(* PendingReadRing                                                         *)
(***************************************************************************)
NewPendingReadRing(length) ==
    [ pending |-> [j \in 1..length |-> [length |-> 0, id |-> 0]],
      writePtr |-> 0, readPtr |-> 0, size |-> 0 ]

RingFull(pr) == pr.size = Len(pr.pending)

\* add(length) on a ring that is not full; id names the promise returned
RingAdd(pr, length, id) ==
    [pr EXCEPT !.pending[pr.writePtr + 1] = [length |-> length, id |-> id],
               !.writePtr = (pr.writePtr + 1) % Len(pr.pending),
               !.size = @ + 1]

\* A resolve that settles the read added last instead of the oldest one.
RingResolvedNewest(pr) ==
    pr.pending[((pr.writePtr + Len(pr.pending) - 1) % Len(pr.pending)) + 1].id

\* resolve(block): the promise it resolves, 0 when the ring is empty
RingResolved(pr) == IF pr.size = 0 THEN 0 ELSE pr.pending[pr.readPtr + 1].id

\* resolve(block): the ring afterwards
RingResolve(pr) ==
    IF pr.size = 0 THEN pr
    ELSE [pr EXCEPT !.readPtr = (pr.readPtr + 1) % Len(pr.pending), !.size = @ - 1]

hasPendingRead(pr) == pr.size > 0

nextReadSize(pr) == IF pr.size = 0 THEN 0 ELSE pr.pending[pr.readPtr + 1].length

\* The log of resolved blocks after resolve(block)
Deliver(log, pr, block) ==
    IF RingResolved(pr) = 0 THEN log
    ELSE Append(log, [id |-> RingResolved(pr), ok |-> TRUE, I |-> block])

\* A cancel that rejects the oldest pending read only.
CancelOldest(log, pr) ==
    IF pr.size = 0 THEN [log |-> log, pr |-> pr]
    ELSE [log |-> Append(log, [id |-> pr.pending[pr.readPtr + 1].id, ok |-> FALSE, I |-> <<>>]),
          pr |-> [pr EXCEPT !.readPtr = (pr.readPtr + 1) % Len(pr.pending), !.size = @ - 1]]

\* cancel(): rejects every pending read, oldest first
RECURSIVE Cancel(_, _)
Cancel(log, pr) ==
    IF pr.size = 0 THEN [log |-> log, pr |-> pr]
    ELSE Cancel(Append(log, [id |-> pr.pending[pr.readPtr + 1].id, ok |-> FALSE, I |-> <<>>]),
                [pr EXCEPT !.readPtr = (pr.readPtr + 1) % Len(pr.pending), !.size = @ - 1])

(***************************************************************************)
(* PushSource                                                              *)
(***************************************************************************)
\* newSamples(I, Q) without its frequency argument; no block resolved.
NoFrequency == Blank
\* The frequencies a PushSource is tuned to, after the 0 it is made with.
PushFreqs == {DefaultFrequency}

\* The numbers of the samples a ring holds.
RingSamples(ring) ==
    {ring.buffer[((ring.readPos + k) % RingCapacity(ring)) + 1] : k \in 0..(ring.filled - 1)}

\* The numbers of the samples of the blocks of a log.
RECURSIVE LogSamples(_)
LogSamples(log) ==
    IF log = <<>> THEN {}
    ELSE {Head(log).I[j] : j \in 1..Len(Head(log).I)} \cup LogSamples(Tail(log))

\* What a step of a PushSource leaves of the frequencies its samples were
\* pushed at: those of the samples now in the ring or in a block the step
\* resolved; a sample that was not there before was pushed by the step, at
\* the frequency tuned.
PushedAtAfter(tuned) ==
    /\ pushedAt' = [n \in RingSamples(ringI') \cup LogSamples(resolved') |->
                        IF n \in DOMAIN pushedAt THEN pushedAt[n] ELSE tuned]
    /\ blockFrequency' = IF LogSamples(resolved') = {} THEN NoFrequency ELSE tuned

SrcInit(kind) ==
    /\ srcKind = kind
    /\ ringI = NewRingBuffer(SampleRingCapacity)
    /\ pendingReads = NewPendingReadRing(ReadRingLength)
    /\ lastSampleInBuffer = 0
    /\ running = FALSE
    /\ firstTs = FALSE
    /\ curSample = 0
    /\ nPushed = 0
    /\ nIssued = 0
    /\ resolved = <<>>
    /\ nSettled = 0
    /\ threw = FALSE
    /\ lastDelivered = NoSample
    /\ centerFrequency = 0
    /\ pushedAt = [n \in {} |-> NoFrequency]
    /\ blockFrequency = NoFrequency
    /\ frameSteps = <<>>
    /\ frameStuck = FALSE

\* The last sample of the blocks of a log, prev when they hold none.
RECURSIVE LastSample(_, _)
LastSample(log, prev) ==
    IF log = <<>> THEN prev
    ELSE LastSample(Tail(log), IF Head(log).I = <<>> THEN prev
                               ELSE Head(log).I[Len(Head(log).I)])

\* The reads a step settles
Settles(log) ==
    /\ resolved' = log
    /\ nSettled' = nSettled + Len(log)
    /\ lastDelivered' = LastSample(log, lastDelivered)

\* startReceiving(): this.I.clear(); this.Q.clear();
PushStartReceiving ==
    /\ srcKind = "push"
    /\ ringI' = RingClear(ringI)
    /\ threw' = FALSE
    /\ Settles(<<>>)
    /\ UNCHANGED <<srcKind, pendingReads, lastSampleInBuffer, running, firstTs, curSample,
                   nPushed, nIssued>>

\* An add that takes the next slot without testing whether the ring is full.
AddReadUnchecked(length) ==
    /\ threw' = FALSE
    /\ pendingReads' = RingAdd(pendingReads, length, nIssued + 1)
    /\ nIssued' = nIssued + 1

\* readSamples(length) of either source when it gets to pendingReads.add
AddRead(length) ==
    IF RingFull(pendingReads)
    THEN /\ threw' = TRUE
         /\ UNCHANGED <<pendingReads, nIssued>>
    ELSE /\ threw' = FALSE
         /\ pendingReads' = RingAdd(pendingReads, length, nIssued + 1)
         /\ nIssued' = nIssued + 1

\* readSamples(length)
PushReadSamples(length) ==
    /\ srcKind = "push"
    /\ nIssued < MaxReads
    /\ IF ringI.filled < length \/ hasPendingRead(pendingReads)
       THEN /\ AddRead(length)
            /\ Settles(<<>>)
            /\ UNCHANGED ringI
       ELSE LET m == RingMoveTo(ringI, PoolGet(length))
            IN  /\ ringI' = m.ring
                /\ Settles(<<[id |-> nIssued + 1, ok |-> TRUE, I |-> m.data]>>)
                /\ nIssued' = nIssued + 1
                /\ threw' = FALSE
                /\ UNCHANGED pendingReads
    /\ UNCHANGED <<srcKind, lastSampleInBuffer, running, firstTs, curSample, nPushed>>

\* The while loop of newSamples, from position pos of the pushed array.
RECURSIVE PushLoop(_, _)
PushLoop(st, I) ==
    LET readSize == nextReadSize(st.pr)
        remaining == Len(I) - st.pos
    IN  IF ~(hasPendingRead(st.pr) /\ st.pos < Len(I)) THEN st
        ELSE IF readSize > st.ring.filled + remaining THEN st
        ELSE LET m == RingMoveTo(st.ring, PoolGet(readSize))
                 end == IF m.count < readSize THEN st.pos + readSize - m.count ELSE st.pos
                 oI == [j \in 1..readSize |->
                          IF j <= m.count THEN m.data[j] ELSE I[st.pos + j - m.count]]
             IN  PushLoop([ ring |-> m.ring,
                            pr |-> RingResolve(st.pr),
                            log |-> Deliver(st.log, st.pr, oI),
                            pos |-> end ], I)

\* A newSamples that resolves the pending reads and drops what is left over.
PushNewSamplesNoStore(count) ==
    /\ srcKind = "push"
    /\ nPushed + count <= MaxPushed
    /\ LET I == Samples(nPushed, count)
           st == PushLoop([ring |-> ringI, pr |-> pendingReads, log |-> <<>>, pos |-> 0], I)
       IN  /\ ringI' = st.ring
           /\ pendingReads' = st.pr
           /\ Settles(st.log)
    /\ nPushed' = nPushed + count
    /\ threw' = FALSE
    /\ UNCHANGED <<srcKind, lastSampleInBuffer, running, firstTs, curSample, nIssued>>

\* newSamples(I, Q): the samples pushed are the next count samples of the stream
PushNewSamples(count) ==
    /\ srcKind = "push"
    /\ nPushed + count <= MaxPushed
    /\ LET I == Samples(nPushed, count)
           st == PushLoop([ring |-> ringI, pr |-> pendingReads, log |-> <<>>, pos |-> 0], I)
       IN  /\ ringI' = IF st.pos < Len(I)
                       THEN RingStore(st.ring, SubSeq(I, st.pos + 1, Len(I)))
                       ELSE st.ring
           /\ pendingReads' = st.pr
           /\ Settles(st.log)
    /\ nPushed' = nPushed + count
    /\ threw' = FALSE
    /\ UNCHANGED <<srcKind, lastSampleInBuffer, running, firstTs, curSample, nIssued>>

\* newSamples(I, Q, frequency) of count samples: the frequency it assigns
\* before its loop, which is the one every block it resolves gets.
NewSamplesFrequency(f) ==
    LET tuned == IF f # NoFrequency THEN f ELSE centerFrequency
    IN  /\ centerFrequency' = tuned
        /\ PushedAtAfter(tuned)

\* readSamples(length): a block resolved at once gets this.centerFrequency.
ReadSamplesFrequency ==
    /\ PushedAtAfter(centerFrequency)
    /\ UNCHANGED centerFrequency

\* startReceiving() and close() resolve no block.
NoBlockFrequency ==
    /\ PushedAtAfter(centerFrequency)
    /\ UNCHANGED centerFrequency

\* setCenterFrequency(freq)
PushSetCenterFrequency(f) ==
    /\ srcKind = "push"
    /\ centerFrequency' = f
    /\ Settles(<<>>)
    /\ threw' = FALSE
    /\ UNCHANGED <<srcKind, ringI, pendingReads, lastSampleInBuffer, running, firstTs, curSample,
                   nPushed, nIssued>>
    /\ PushedAtAfter(f)

\* close(): this.pendingReads.cancel();
PushClose ==
    /\ srcKind = "push"
    /\ LET c == Cancel(<<>>, pendingReads)
       IN  Settles(c.log) /\ pendingReads' = c.pr
    /\ threw' = FALSE
    /\ UNCHANGED <<srcKind, ringI, lastSampleInBuffer, running, firstTs, curSample,
                   nPushed, nIssued>>

(***************************************************************************)
(* RealTimeSource                                                          *)
(***************************************************************************)
\* startReceiving(): firstTs = null; lastSampleInBuffer = 0; running = true; schedule()
RealTimeStartReceiving ==
    /\ srcKind = "realtime"
    /\ firstTs' = FALSE
    /\ lastSampleInBuffer' = 0
    /\ running' = TRUE
    /\ threw' = FALSE
    /\ resolved' = <<>>
    /\ nSettled' = nSettled
    /\ lastDelivered' = NoSample
    /\ UNCHANGED <<srcKind, ringI, pendingReads, curSample, nPushed, nIssued>>

\* readSamples(length): return this.pendingReads.add(length);
RealTimeReadSamples(length) ==
    /\ srcKind = "realtime"
    /\ nIssued < MaxReads
    /\ AddRead(length)
    /\ Settles(<<>>)
    /\ UNCHANGED <<srcKind, ringI, lastSampleInBuffer, running, firstTs, curSample, nPushed>>

\* close(): running = false; pendingReads.cancel()
RealTimeClose ==
    /\ srcKind = "realtime"
    /\ running' = FALSE
    /\ LET c == Cancel(<<>>, pendingReads)
       IN  Settles(c.log) /\ pendingReads' = c.pr
    /\ threw' = FALSE
    /\ UNCHANGED <<srcKind, ringI, lastSampleInBuffer, firstTs, curSample, nPushed, nIssued>>

\* A fillBuffer that fills nothing.
fillBufferNothing(st, cur) == st

\* fillBuffer(curSample); getSamples(fillStart, I, Q) yields the stream
\* samples numbered from fillStart
fillBuffer(st, cur) ==
    LET startWant == cur - nextReadSize(st.pr)
        firstSampleInBuffer == st.last - st.ring.filled
        endSampleInBuffer == firstSampleInBuffer + RingCapacity(st.ring)
        fillStart == IF startWant >= endSampleInBuffer THEN startWant ELSE st.last
        fillCount == IF startWant >= endSampleInBuffer THEN RingCapacity(st.ring)
                     ELSE IF cur >= endSampleInBuffer THEN cur - st.last
                     ELSE RingCapacity(st.ring) - st.ring.filled
    IN  IF fillCount = 0 THEN st
        ELSE [st EXCEPT !.ring = RingStore(st.ring, Samples(fillStart, fillCount)),
                        !.last = fillStart + fillCount]

\* The while loop of frame(), followed for `fuel` rounds: a round breaks,
\* or refills and continues, or resolves the head read; a loop that has
\* not ended when the rounds are used up is taken not to end.
RECURSIVE FrameLoop(_, _, _)
FrameLoop(st, cur, fuel) ==
    LET firstSampleInBuffer == st.last - st.ring.filled
        canRead == cur - firstSampleInBuffer
        readSize == nextReadSize(st.pr)
    IN  IF ~hasPendingRead(st.pr) THEN st
        ELSE IF readSize > canRead THEN st
        ELSE IF fuel = 0 THEN [st EXCEPT !.diverged = TRUE]
        ELSE IF canRead > st.ring.filled
        THEN FrameLoop([fillBuffer(st, cur) EXCEPT !.steps = Append(@, "refill")], cur, fuel - 1)
        ELSE LET m == RingMoveTo(st.ring, PoolGet(readSize))
             IN  FrameLoop([st EXCEPT !.ring = m.ring,
                                      !.pr = RingResolve(st.pr),
                                      !.log = Deliver(st.log, st.pr, m.data),
                                      !.steps = Append(@, "resolve")],
                           cur, fuel - 1)

\* Another call of the source, or a frame, runs when no frame holds the thread.
ThreadFree ==
    /\ ~frameStuck
    /\ frameSteps' = <<>>
    /\ UNCHANGED frameStuck

\* frame(ts) of a running source: the tick is `advance` samples after the last one
RealTimeFrame(advance) ==
    /\ srcKind = "realtime"
    /\ running
    /\ ~frameStuck
    /\ LET cur == IF firstTs THEN curSample + advance ELSE 0
           st0 == [ring |-> ringI, pr |-> pendingReads, log |-> <<>>,
                   last |-> lastSampleInBuffer, diverged |-> FALSE, steps |-> <<>>]
           st1 == IF RingCapacity(ringI) > ringI.filled /\ ~hasPendingRead(pendingReads)
                  THEN fillBuffer(st0, cur) ELSE st0
           st == FrameLoop(st1, cur, MaxRounds)
       IN  /\ cur <= MaxTime
           /\ frameStuck' = st.diverged
           /\ frameSteps' = st.steps
           /\ curSample' = cur
           /\ ringI' = st.ring
           /\ pendingReads' = st.pr
           /\ Settles(st.log)
           /\ lastSampleInBuffer' = st.last
    /\ firstTs' = TRUE
    /\ threw' = FALSE
    /\ UNCHANGED <<srcKind, running, nPushed, nIssued>>

(***************************************************************************)
(* A Float32RingBuffer with a caller that stores the samples of a stream,  *)
(* numbered from 0, and reads them with moveTo and copyTo.                 *)
(***************************************************************************)
\* copyTo(data) for a destination that held `data`: the destination after it
RingCopyTo(ring, data) ==
    LET count == Min(Min(Len(data), RingCapacity(ring)), ring.filled)
        srcOffset == (ring.writePos + RingCapacity(ring) - count) % RingCapacity(ring)
    IN  DoCopy(count, ring.buffer, srcOffset, data, 0).dst

BufInit ==
    /\ ringBuffer = NewRingBuffer(BufCapacity)
    /\ shadowBuffer = NewRingBuffer(BufCapacity)
    /\ nStored = 0
    /\ lastOp = "none"
    /\ dest = <<>>
    /\ ret = 0
    /\ lastMoved = NoSample

\* store(data) with the next n samples of the stream
store(n) ==
    /\ nStored + n <= MaxStored
    /\ ringBuffer' = RingStore(ringBuffer, Samples(nStored, n))
    /\ shadowBuffer' = RingStore(shadowBuffer, Samples(nStored, n))
    /\ nStored' = nStored + n
    /\ lastOp' = "store"
    /\ dest' = <<>>
    /\ ret' = 0
    /\ UNCHANGED lastMoved

\* moveTo(data) with a new array of m elements
moveTo(m) ==
    LET r == RingMoveTo(ringBuffer, PoolGet(m))
    IN  /\ ringBuffer' = r.ring
        /\ dest' = r.data
        /\ ret' = r.count
        /\ lastMoved' = IF r.count > 0 THEN r.data[r.count] ELSE lastMoved
        /\ lastOp' = "moveTo"
        /\ UNCHANGED <<shadowBuffer, nStored>>

\* copyTo(data) with a new array of m elements
copyTo(m) ==
    /\ dest' = RingCopyTo(ringBuffer, PoolGet(m))
    /\ ret' = 0
    /\ lastOp' = "copyTo"
    /\ UNCHANGED <<ringBuffer, shadowBuffer, nStored, lastMoved>>

(***************************************************************************)
(* Buffer: a pool of arrays handed out in turns.  An array is known by its *)
(* id and its length; a view is the array get returned, or the subarray of *)
(* it from `offset` with `len` elements.                                   *)
(***************************************************************************)
NoView == [slot |-> Blank, array |-> 0, offset |-> 0, len |-> 0, whole |-> FALSE, asked |-> 0]

\* constructor(make, count, length): count arrays of make(length || 0)
BufferInit(count, len) ==
    /\ buffers = [j \in 1..count |-> [id |-> j, len |-> len]]
    /\ current = 0
    /\ nMade = count
    /\ got = NoView

\* A get that hands out the slot and stays on it.
BufferGetStay(p, n) ==
    LET out == p.buffers[p.current + 1]
        grown == IF out.len < n THEN [id |-> p.nMade + 1, len |-> n] ELSE out
    IN  [ buffers |-> [p.buffers EXCEPT ![p.current + 1] = grown],
          current |-> p.current,
          nMade |-> IF out.len < n THEN p.nMade + 1 ELSE p.nMade,
          view |-> [slot |-> p.current, array |-> grown.id, offset |-> 0, len |-> n,
                    whole |-> grown.len = n, asked |-> n] ]

\* get(length) on the pool p: the pool afterwards and the view returned
BufferGet(p, n) ==
    LET out == p.buffers[p.current + 1]
        grown == IF out.len < n THEN [id |-> p.nMade + 1, len |-> n] ELSE out
    IN  [ buffers |-> [p.buffers EXCEPT ![p.current + 1] = grown],
          current |-> (p.current + 1) % Len(p.buffers),
          nMade |-> IF out.len < n THEN p.nMade + 1 ELSE p.nMade,
          view |-> [slot |-> p.current, array |-> grown.id, offset |-> 0, len |-> n,
                    whole |-> grown.len = n, asked |-> n] ]

get(n) ==
    LET r == BufferGet([buffers |-> buffers, current |-> current, nMade |-> nMade], n)
    IN  /\ buffers' = r.buffers
        /\ current' = r.current
        /\ nMade' = r.nMade
        /\ got' = r.view

(***************************************************************************)
(* SingleThread: run(fn) chains fn behind the promise of the previous run. *)
(* An entry of chain is the promise one run call returned, together with   *)
(* the function it was made for: the value the function returns, the       *)
(* awaits the function still has to pass, and how far the promise is:      *)
(* "chained" (fn not called yet), "running" (fn called, not returned) or   *)
(* "fulfilled".  The functions do not throw, as the class demands of them. *)
(***************************************************************************)
FnResults == {"a", "b"}
Fns == [result : FnResults, awaits : 0..MaxAwaits]
NoValue == "none"

\* constructor: this.promise = Promise.resolve()
ThreadInit == chain = <<>>

\* Is the promise that call k of run chained its function behind fulfilled?
PreviousFulfilled(k) == IF k = 1 THEN TRUE ELSE chain[k - 1].pc = "fulfilled"

\* A function called as soon as run is, whatever the previous promise does.
FnCallUnchained(k) ==
    /\ chain[k].pc = "chained"
    /\ chain' = [chain EXCEPT ![k].pc = "running"]

\* this.promise.then(() => fn()): the reaction runs once this.promise, as it
\* was when run was called, is fulfilled.
FnCall(k) ==
    /\ chain[k].pc = "chained"
    /\ PreviousFulfilled(k)
    /\ chain' = [chain EXCEPT ![k].pc = "running"]

\* The function passes one of its awaits.
FnAwait(k) ==
    /\ chain[k].pc = "running"
    /\ chain[k].awaits > 0
    /\ chain' = [chain EXCEPT ![k].awaits = @ - 1]

\* The function returns: the promise then() made takes its result.
FnReturn(k) ==
    /\ chain[k].pc = "running"
    /\ chain[k].awaits = 0
    /\ chain' = [chain EXCEPT ![k].pc = "fulfilled", ![k].value = chain[k].fn.result]

\* run(fn)
run(fn) ==
    /\ Len(chain) < MaxFns
    /\ chain' = Append(chain, [fn |-> fn, awaits |-> fn.awaits, pc |-> "chained", value |-> NoValue])


(***************************************************************************)
(* Channel.  Messages are numbered in the order they are sent, and the     *)
(* message of a send is its number.  The promise of a send is NoValue      *)
(* until it resolves with an ack value.  The promise of a receive is       *)
(* pending, or resolved with {msg, ack}: ack names the send whose promise  *)
(* the ack function resolves, and acked is what ack was called with.       *)
(***************************************************************************)
AckValues == {"x", "y"}
PendingReceive == [msg |-> 0, ack |-> 0, acked |-> NoValue]

\* constructor
ChannelInit ==
    /\ sendQueue = <<>>
    /\ rcvQueue = <<>>
    /\ sends = <<>>
    /\ receives = <<>>

\* Array.pop: the last element and the rest.
ArrayPop(q) == [item |-> q[Len(q)], rest |-> SubSeq(q, 1, Len(q) - 1)]

\* Array.shift: the first element and the rest.
ArrayShift(q) == [item |-> Head(q), rest |-> Tail(q)]

\* send(msg)
send(msg) ==
    LET s == Len(sends) + 1
    IN  /\ s <= MaxSends
        /\ sends' = Append(sends, NoValue)
        /\ IF rcvQueue # <<>>
           THEN \* rcv(msg): msgPR of that receive resolves with msg and the
                \* resolver of a new promise, which send returns
                LET sh == ArrayShift(rcvQueue)
                IN  /\ rcvQueue' = sh.rest
                    /\ receives' = [receives EXCEPT ![sh.item] = [msg |-> msg, ack |-> s, acked |-> NoValue]]
                    /\ UNCHANGED sendQueue
           ELSE /\ sendQueue' = Append(sendQueue, [msg |-> msg, ack |-> s])
                /\ UNCHANGED <<rcvQueue, receives>>

\* receive()
receive ==
    LET r == Len(receives) + 1
    IN  /\ r <= MaxReceives
        /\ IF sendQueue # <<>>
           THEN LET sh == ArrayShift(sendQueue)
                IN  /\ sendQueue' = sh.rest
                    /\ receives' = Append(receives, [msg |-> sh.item.msg, ack |-> sh.item.ack, acked |-> NoValue])
                    /\ UNCHANGED rcvQueue
           ELSE /\ rcvQueue' = Append(rcvQueue, r)
                /\ receives' = Append(receives, PendingReceive)
                /\ UNCHANGED sendQueue
        /\ UNCHANGED sends

\* The receiver of receive call r calls received.ack(v).
ack(r, v) ==
    /\ receives[r].ack # 0
    /\ receives[r].acked = NoValue
    /\ receives' = [receives EXCEPT ![r].acked = v]
    /\ sends' = [sends EXCEPT ![receives[r].ack] = v]
    /\ UNCHANGED <<sendQueue, rcvQueue>>


(***************************************************************************)
(* FIRFilter.  A Float32Array is a sequence; the element the code writes   *)
(* a[i] is a[i + 1] here.  Coefficients and samples are small integers,    *)
(* which 32-bit floats add and multiply exactly.                           *)
(***************************************************************************)
CoefValues == {1, 2}
SampleValues == {0, 1}
Kernels == UNION {[1..n -> CoefValues] : n \in 1..MaxTaps}
Blocks == UNION {[1..n -> SampleValues] : n \in 0..MaxBlock}

\* new Float32Array(n)
Zeros(n) == [j \in 1..n |-> 0]

\* a.subarray(begin)
TypedSubarray(a, begin) == SubSeq(a, begin + 1, Len(a))

\* a.set(src, at)
TypedSet(a, src, at) ==
    [j \in 1..Len(a) |-> IF j > at /\ j <= at + Len(src) THEN src[j - at] ELSE a[j]]

\* a.copyWithin(target, start)
TypedCopyWithin(a, target, start) ==
    TypedSet(a, SubSeq(a, start + 1, Min(Len(a), Len(a) - target + start)), target)

\* constructor(coefs)
FIRFilterInit(kernel) ==
    /\ coefs = kernel
    /\ curSamples = Zeros(Len(kernel) - 1)
    /\ firStream = <<>>
    /\ firIn = <<>>
    /\ firOut = <<>>

\* A load that keeps nothing of the blocks before.
loadSamplesAfresh(cur, block, offset) == TypedSet(Zeros(Len(block) + offset), block, offset)

\* loadSamples(samples) with this.curSamples = cur: the new curSamples
loadSamples(cur, block, offset) ==
    LET len == Len(block) + offset
        kept == IF Len(cur) # len
                THEN TypedSet(Zeros(len), TypedSubarray(cur, Len(cur) - offset), 0)
                ELSE TypedCopyWithin(cur, 0, Len(block))
    IN  TypedSet(kept, block, offset)

\* this.coefs[i++] * this.curSamples[index++]
FirProduct(kernel, cur, i, index) == kernel[i + 1] * cur[index + 1]

\* The sum one round of a while loop of get adds to out: stride products.
RECURSIVE FirRound(_, _, _, _, _)
FirRound(kernel, cur, i, index, stride) ==
    IF stride = 0 THEN 0
    ELSE FirProduct(kernel, cur, i, index) + FirRound(kernel, cur, i + 1, index + 1, stride - 1)

\* One of the three while loops of get, entered with i, index and out as
\* in st: rounds of stride products while i < limit.
RECURSIVE FirLoop(_, _, _, _, _)
FirLoop(kernel, cur, st, limit, stride) ==
    IF st.i < limit
    THEN FirLoop(kernel, cur,
                 [i |-> st.i + stride, index |-> st.index + stride,
                  out |-> st.out + FirRound(kernel, cur, st.i, st.index, stride)],
                 limit, stride)
    ELSE st

\* get(index)
FirGet(kernel, cur, index) ==
    LET len == Len(kernel)
        len4 == 4 * (len \div 4)
        len2 == 2 * (len \div 2)
        by4 == FirLoop(kernel, cur, [i |-> 0, index |-> index, out |-> 0], len4, 4)
        by2 == FirLoop(kernel, cur, by4, len2, 2)
        by1 == FirLoop(kernel, cur, by2, len, 1)
    IN  by1.out

\* inPlace(samples) on a filter with the given coefficients and curSamples:
\* the new curSamples and the block as it is left.
FirInPlace(kernel, cur, block) ==
    LET loaded == loadSamples(cur, block, Len(kernel) - 1)
    IN  [curSamples |-> loaded,
         samples |-> [j \in 1..Len(block) |-> FirGet(kernel, loaded, j - 1)]]

\* inPlace(samples)
inPlace(block) ==
    LET r == FirInPlace(coefs, curSamples, block)
    IN  /\ Len(firStream) + Len(block) <= MaxFirStream
        /\ curSamples' = r.curSamples
        /\ firStream' = firStream \o block
        /\ firIn' = block
        /\ firOut' = r.samples
        /\ UNCHANGED coefs


(***************************************************************************)
(* FFT.  The arithmetic is exact: a number is <<a, b>>, standing for       *)
(* a + b * cos(pi/4), which holds every value an FFT of length 4 or 8      *)
(* computes from integer samples; the square of cos(pi/4) is 1/2.  A       *)
(* sample is a multiple of FftUnit, so that the division by the length and *)
(* the two halvings of a round trip leave integers.  An array is a         *)
(* function on 0..length-1.                                                *)
(***************************************************************************)
ZZero == <<0, 0>>
ZAdd(x, y) == <<x[1] + y[1], x[2] + y[2]>>
ZSub(x, y) == <<x[1] - y[1], x[2] - y[2]>>
ZTimes(k, x) == <<k * x[1], k * x[2]>>
ZMul(x, y) == <<x[1] * y[1] + (x[2] * y[2]) \div 2, x[1] * y[2] + x[2] * y[1]>>
ZDiv(x, k) == <<x[1] \div k, x[2] \div k>>

\* ((minimumLength - 1) & minimumLength) == 0
RECURSIVE IsPowerOfTwo(_)
IsPowerOfTwo(k) == IF k <= 1 THEN TRUE ELSE k % 2 = 0 /\ IsPowerOfTwo(k \div 2)

\* while (realLength < minimumLength) realLength <<= 1
RECURSIVE ShiftUpTo(_, _)
ShiftUpTo(realLength, minimumLength) ==
    IF realLength < minimumLength THEN ShiftUpTo(2 * realLength, minimumLength) ELSE realLength

\* actualLength(minimumLength)
actualLength(minimumLength) ==
    LET least == IF minimumLength < 4 THEN 4 ELSE minimumLength
    IN  IF IsPowerOfTwo(least) THEN least ELSE ShiftUpTo(1, least)

\* for (let shifted = ...; shifted > 0; shifted >>= 1) ++numBits
RECURSIVE CountBits(_)
CountBits(shifted) == IF shifted > 0 THEN 1 + CountBits(shifted \div 2) ELSE 0

\* getNumBits(length)
getNumBits(length) == CountBits(length - 1)

\* reverseBits(num, bits), entered with output so far
RECURSIVE ReverseBitsLoop(_, _, _)
ReverseBitsLoop(num, bits, output) ==
    IF bits = 0 THEN output
    ELSE ReverseBitsLoop(num \div 2, bits - 1, 2 * output + (num % 2))

reverseBits(num, bits) == ReverseBitsLoop(num, bits, 0)

\* The first n elements of an array, each computed once.
RECURSIVE Elements(_, _)
Elements(arr, n) ==
    IF n = 0 THEN <<>>
    ELSE Elements(arr, n - 1) @@ ((n - 1) :> arr[n - 1])

\* An array of the length, element by element.
ArrayOf(length, each(_)) == Elements([n \in 0..(length - 1) |-> each(n)], length)

\* reversedBitIndices(length)
reversedBitIndices(length) ==
    LET reversed(i) == reverseBits(i, getNumBits(length))
    IN  ArrayOf(length, reversed)

\* makeFftCoefficients(length)[bin].real[i] and .imag[i]: the cosine and the
\* sine of -pi * i / halfSize.  A transform of length 4 reads none of them
\* and one of length 8 reads those of bin 0, where halfSize is 4.
CoefReal(bin, i) == <<<<1, 0>>, <<0, 1>>, <<0, 0>>, <<0, -1>>>>[i + 1]
CoefImag(bin, i) == <<<<0, 0>>, <<0, -1>>, <<-1, 0>>, <<0, -1>>>>[i + 1]

\* s in a reverse transform that is not told apart from a direct one.
FftSignDirect(reverse) == 1

\* const s = reverse ? -1 : 1
FftSign(reverse) == IF reverse THEN -1 ELSE 1

\* The first loop of doFastTransform: a transform of length 4 on each group
\* of four elements.
FftFours(io, length, s) ==
    LET a(n, k) == io.real[n - (n % 4) + k]
        b(n, k) == io.imag[n - (n % 4) + k]
        re(n) == CASE n % 4 = 0 -> ZAdd(ZAdd(a(n, 0), a(n, 1)), ZAdd(a(n, 2), a(n, 3)))
                   [] n % 4 = 1 -> ZSub(ZSub(a(n, 0), a(n, 1)), ZTimes(s, ZSub(b(n, 3), b(n, 2))))
                   [] n % 4 = 2 -> ZSub(ZSub(ZAdd(a(n, 0), a(n, 1)), a(n, 2)), a(n, 3))
                   [] n % 4 = 3 -> ZAdd(ZSub(a(n, 0), a(n, 1)), ZTimes(s, ZSub(b(n, 3), b(n, 2))))
        im(n) == CASE n % 4 = 0 -> ZAdd(ZAdd(b(n, 0), b(n, 1)), ZAdd(b(n, 2), b(n, 3)))
                   [] n % 4 = 1 -> ZSub(ZSub(b(n, 0), b(n, 1)), ZTimes(s, ZSub(a(n, 2), a(n, 3))))
                   [] n % 4 = 2 -> ZSub(ZSub(ZAdd(b(n, 0), b(n, 1)), b(n, 2)), b(n, 3))
                   [] n % 4 = 3 -> ZAdd(ZSub(b(n, 0), b(n, 1)), ZTimes(s, ZSub(a(n, 2), a(n, 3))))
    IN  [real |-> ArrayOf(length, re), imag |-> ArrayOf(length, im)]

\* One round of the second loop of doFastTransform: every pair (near, far)
\* of every group of dftSize elements, with the coefficients of one bin.
\* The pairs are disjoint, so the order the code takes them in (four at a
\* time) does not show.
FftPairs(io, length, s, dftSize, coeffBin) ==
    LET halfDftSize == dftSize \div 2
        i(n) == n % halfDftSize
        near(n) == n - (n % dftSize) + i(n)
        far(n) == near(n) + halfDftSize
        cr(n) == CoefReal(coeffBin, i(n))
        ci(n) == ZTimes(s, CoefImag(coeffBin, i(n)))
        oddReal(n) == ZSub(ZMul(cr(n), io.real[far(n)]), ZMul(ci(n), io.imag[far(n)]))
        oddImag(n) == ZAdd(ZMul(cr(n), io.imag[far(n)]), ZMul(ci(n), io.real[far(n)]))
        re(n) == IF n = near(n) THEN ZAdd(io.real[near(n)], oddReal(n))
                 ELSE ZSub(io.real[near(n)], oddReal(n))
        im(n) == IF n = near(n) THEN ZAdd(io.imag[near(n)], oddImag(n))
                 ELSE ZSub(io.imag[near(n)], oddImag(n))
    IN  [real |-> ArrayOf(length, re), imag |-> ArrayOf(length, im)]

\* The second loop of doFastTransform, entered with dftSize and coeffBin.
RECURSIVE FftRounds(_, _, _, _, _)
FftRounds(io, length, s, dftSize, coeffBin) ==
    IF dftSize <= length
    THEN FftRounds(FftPairs(io, length, s, dftSize, coeffBin), length, s, 2 * dftSize, coeffBin + 1)
    ELSE io

\* doFastTransform(length, reverse, coefs, real, imag): the arrays afterwards
doFastTransform(length, reverse, io) ==
    FftRounds(FftFours(io, length, FftSign(reverse)), length, FftSign(reverse), 8, 0)

\* The loops of transform and reverse that fill the zeroed output arrays:
\* out[revIndex[i]] = each(in[i]) for the i below every length.
FftScatter(length, count, arr, each(_)) ==
    LET revIndex == reversedBitIndices(length)
        at(n) == LET from == CHOOSE i \in 0..(length - 1) : revIndex[i] = n
                 IN  IF from < count THEN each(arr[from]) ELSE ZZero
    IN  ArrayOf(length, at)

\* new IqPool(4, length): 8 arrays of the length, zeroed
FftPoolInit(length) ==
    [buffers |-> [j \in 1..8 |-> [id |-> j, len |-> length]], current |-> 0, nMade |-> 8]

\* this.out.get(length): the pool afterwards and the ids of the two arrays
IqPoolGet(p, length) ==
    LET first == BufferGet(p, length)
        second == BufferGet([buffers |-> first.buffers, current |-> first.current,
                             nMade |-> first.nMade], length)
    IN  [pool |-> [buffers |-> second.buffers, current |-> second.current, nMade |-> second.nMade],
         real |-> first.view.array,
         imag |-> second.view.array]

NoOutput == [real |-> 0, imag |-> 0]
\* The imag argument of transform(real, imag) left out.
NotGiven == <<>>
ZeroArray(length) == [n \in 0..(length - 1) |-> ZZero]
ArrayLength(arr) == Cardinality(DOMAIN arr)

\* FFT.ofLength(minimumLength), and the input the caller will transform
FFTInit(minimumLength, input) ==
    /\ fftLength = actualLength(minimumLength)
    /\ fftOut = FftPoolInit(fftLength)
    /\ fftMem = [id \in 1..8 |-> ZeroArray(fftLength)]
    /\ fftIn = input
    /\ fftFwd = NoOutput
    /\ fftBack = NoOutput

\* transform(real, imag) of the input
transform ==
    LET length == fftLength
        g == IqPoolGet(fftOut, length)
        windowed(x) == ZDiv(ZTimes(1, x), length)
        count == IF fftIn.imag = NotGiven THEN ArrayLength(fftIn.real)
                 ELSE Min(ArrayLength(fftIn.real), ArrayLength(fftIn.imag))
        outReal == FftScatter(length, count, fftIn.real, windowed)
        outImag == IF fftIn.imag = NotGiven THEN ZeroArray(length)
                   ELSE FftScatter(length, count, fftIn.imag, windowed)
        done == doFastTransform(length, FALSE, [real |-> outReal, imag |-> outImag])
    IN  /\ fftFwd = NoOutput
        /\ fftOut' = g.pool
        /\ fftMem' = [fftMem EXCEPT ![g.real] = done.real, ![g.imag] = done.imag]
        /\ fftFwd' = [real |-> g.real, imag |-> g.imag]
        /\ UNCHANGED <<fftLength, fftIn, fftBack>>

\* reverse(real, imag) of the two arrays transform returned
reverse ==
    LET length == fftLength
        g == IqPoolGet(fftOut, length)
        \* outReal.fill(0); outImag.fill(0)
        filled == [fftMem EXCEPT ![g.real] = ZeroArray(length), ![g.imag] = ZeroArray(length)]
        same(x) == x
        outReal == FftScatter(length, length, filled[fftFwd.real], same)
        outImag == FftScatter(length, length, filled[fftFwd.imag], same)
        done == doFastTransform(length, TRUE, [real |-> outReal, imag |-> outImag])
    IN  /\ fftFwd # NoOutput
        /\ fftBack = NoOutput
        /\ fftOut' = g.pool
        /\ fftMem' = [filled EXCEPT ![g.real] = done.real, ![g.imag] = done.imag]
        /\ fftBack' = [real |-> g.real, imag |-> g.imag]
        /\ UNCHANGED <<fftLength, fftIn, fftFwd>>

LibInit ==
    /\ ThreadInit /\ ChannelInit /\ FIRFilterInit(<<1>>)
    /\ FFTInit(4, [real |-> ZeroArray(4), imag |-> NotGiven])

(***************************************************************************)
(* The radio with its user and its sources.                                *)
(***************************************************************************)
Init == RadioInit /\ SrcInit("push") /\ BufInit /\ BufferInit(1, 0) /\ LibInit

UserSubmits == (\E c \in Commands : Submit(c)) /\ UNCHANGED <<srcVars, bufVars, poolVars, libVars>>
UserSetsSampleRate == (\E r \in Rates : SetSampleRate(r)) /\ UNCHANGED <<srcVars, bufVars, poolVars, libVars>>
ThreadRuns == (\E i \in 1..Len(cmds) : Run(i)) /\ UNCHANGED <<srcVars, bufVars, poolVars, libVars>>
StartStep ==
    /\ \E i \in 1..Len(cmds) :
        \/ StartGot(i)
        \/ StartRateSet(i)
        \/ StartFrequencySet(i)
        \/ StartParameterSet(i)
        \/ StartReceiving(i)
    /\ UNCHANGED <<srcVars, bufVars, poolVars, libVars>>
StopStep == (\E i \in 1..Len(cmds) : StopStreamed(i) \/ StopClosed(i)) /\ UNCHANGED <<srcVars, bufVars, poolVars, libVars>>
FrequencyStep == (\E i \in 1..Len(cmds) : FrequencySet(i)) /\ UNCHANGED <<srcVars, bufVars, poolVars, libVars>>
ParameterStep == (\E i \in 1..Len(cmds) : ParameterSet(i)) /\ UNCHANGED <<srcVars, bufVars, poolVars, libVars>>
TransfersStep ==
    /\ \E s \in Sessions : StartStreamResumed(s) \/ ReadResolved(s) \/ ReadRejected(s)
    /\ UNCHANGED <<srcVars, bufVars, poolVars, libVars>>

Next ==
    \/ UserSubmits
    \/ UserSetsSampleRate
    \/ ThreadRuns
    \/ StartStep
    \/ StopStep
    \/ FrequencyStep
    \/ ParameterStep
    \/ TransfersStep

Spec == Init /\ [][Next]_vars

\* The calls of one Transfers object into the source settle.
StartStreamSettles(s) == StartStreamResumed(s) /\ UNCHANGED <<srcVars, bufVars, poolVars, libVars>>
ReadSettles(s) == (ReadResolved(s) \/ ReadRejected(s)) /\ UNCHANGED <<srcVars, bufVars, poolVars, libVars>>

\* The radio with a source and a provider whose calls all settle, and a
\* microtask queue that runs every continuation that is ready: the function
\* at the head of the SingleThread is entered, every awaited call of a
\* command settles and the command goes on, startReceiving() of every
\* Transfers settles, and so does the oldest read in flight of each.
LiveSpec ==
    /\ Spec
    /\ WF_vars(ThreadRuns)
    /\ WF_vars(StartStep)
    /\ WF_vars(StopStep)
    /\ WF_vars(FrequencyStep)
    /\ WF_vars(ParameterStep)
    /\ \A s \in Sessions : WF_vars(StartStreamSettles(s)) /\ WF_vars(ReadSettles(s))

(***************************************************************************)
(* A PushSource or a RealTimeSource with its reader and its feed.          *)
(***************************************************************************)
SourceInit == RadioInit /\ BufInit /\ BufferInit(1, 0) /\ LibInit /\ \E kind \in {"push", "realtime"} : SrcInit(kind)

PushStarts == PushStartReceiving /\ NoBlockFrequency /\ UNCHANGED <<radioVars, bufVars, poolVars, libVars, frameVars>>
PushReads ==
    /\ \E n \in 1..MaxReadSize : PushReadSamples(n)
    /\ ReadSamplesFrequency
    /\ UNCHANGED <<radioVars, bufVars, poolVars, libVars, frameVars>>
PushFeeds ==
    /\ \E n \in 1..MaxPushSize, f \in PushFreqs \cup {NoFrequency} :
        PushNewSamples(n) /\ NewSamplesFrequency(f)
    /\ UNCHANGED <<radioVars, bufVars, poolVars, libVars, frameVars>>
PushTunes == (\E f \in PushFreqs : PushSetCenterFrequency(f)) /\ UNCHANGED <<radioVars, bufVars, poolVars, libVars, frameVars>>
PushCloses == PushClose /\ NoBlockFrequency /\ UNCHANGED <<radioVars, bufVars, poolVars, libVars, frameVars>>
RealTimeStarts == RealTimeStartReceiving /\ ThreadFree /\ UNCHANGED <<radioVars, bufVars, poolVars, libVars, freqVars>>
RealTimeReads ==
    /\ \E n \in 1..MaxReadSize : RealTimeReadSamples(n)
    /\ ThreadFree
    /\ UNCHANGED <<radioVars, bufVars, poolVars, libVars, freqVars>>
RealTimeTicks == (\E d \in 0..MaxAdvance : RealTimeFrame(d)) /\ UNCHANGED <<radioVars, bufVars, poolVars, libVars, freqVars>>
RealTimeCloses == RealTimeClose /\ ThreadFree /\ UNCHANGED <<radioVars, bufVars, poolVars, libVars, freqVars>>

SourceNext ==
    \/ PushStarts
    \/ PushReads
    \/ PushFeeds
    \/ PushTunes
    \/ PushCloses
    \/ RealTimeStarts
    \/ RealTimeReads
    \/ RealTimeTicks
    \/ RealTimeCloses

SourceSpec == SourceInit /\ [][SourceNext]_vars

(***************************************************************************)
(* A ring buffer with its caller.                                          *)
(***************************************************************************)
Stores == (\E n \in 1..MaxStoreSize : store(n)) /\ UNCHANGED <<radioVars, srcVars, poolVars, libVars>>
Moves == (\E m \in 1..MaxStoreSize : moveTo(m)) /\ UNCHANGED <<radioVars, srcVars, poolVars, libVars>>
Copies == (\E m \in 1..MaxStoreSize : copyTo(m)) /\ UNCHANGED <<radioVars, srcVars, poolVars, libVars>>

RingNext ==
    \/ Stores
    \/ Moves
    \/ Copies

RingSpec == Init /\ [][RingNext]_vars

(***************************************************************************)
(* A pool of any number of slots and any initial length, with its caller.  *)
(***************************************************************************)
PoolInit ==
    /\ RadioInit /\ SrcInit("push") /\ BufInit /\ LibInit
    /\ \E count \in 1..MaxPoolCount, len \in 0..MaxGetLength : BufferInit(count, len)

Gets == (\E n \in 0..MaxGetLength : get(n)) /\ UNCHANGED <<radioVars, srcVars, bufVars, libVars>>

PoolNext == Gets

PoolSpec == PoolInit /\ [][PoolNext]_vars

(***************************************************************************)
(* A SingleThread with its callers.                                        *)
(***************************************************************************)
ThreadSubmits == (\E fn \in Fns : run(fn)) /\ UNCHANGED <<radioVars, srcVars, bufVars, poolVars, chanVars, firVars, fftVars>>
ThreadCalls == (\E k \in 1..Len(chain) : FnCall(k)) /\ UNCHANGED <<radioVars, srcVars, bufVars, poolVars, chanVars, firVars, fftVars>>
ThreadAwaits == (\E k \in 1..Len(chain) : FnAwait(k)) /\ UNCHANGED <<radioVars, srcVars, bufVars, poolVars, chanVars, firVars, fftVars>>
ThreadReturns == (\E k \in 1..Len(chain) : FnReturn(k)) /\ UNCHANGED <<radioVars, srcVars, bufVars, poolVars, chanVars, firVars, fftVars>>

ThreadNext ==
    \/ ThreadSubmits
    \/ ThreadCalls
    \/ ThreadAwaits
    \/ ThreadReturns

ThreadSpec == Init /\ [][ThreadNext]_vars

(***************************************************************************)
(* A Channel with its senders and receivers.                               *)
(***************************************************************************)
OtherThanChannel == <<radioVars, srcVars, bufVars, poolVars, chain, firVars, fftVars>>

ChannelSends == send(Len(sends) + 1) /\ UNCHANGED OtherThanChannel
ChannelReceives == receive /\ UNCHANGED OtherThanChannel
ChannelAcks == (\E r \in 1..Len(receives), v \in AckValues : ack(r, v)) /\ UNCHANGED OtherThanChannel

ChannelNext ==
    \/ ChannelSends
    \/ ChannelReceives
    \/ ChannelAcks

ChannelSpec == Init /\ [][ChannelNext]_vars

(***************************************************************************)
(* A FIRFilter of any kernel with the blocks of a stream.                  *)
(***************************************************************************)
FirInit ==
    /\ RadioInit /\ SrcInit("push") /\ BufInit /\ BufferInit(1, 0)
    /\ ThreadInit /\ ChannelInit
    /\ FFTInit(4, [real |-> ZeroArray(4), imag |-> NotGiven])
    /\ \E kernel \in Kernels : FIRFilterInit(kernel)

FirFilters == (\E block \in Blocks : inPlace(block)) /\ UNCHANGED <<radioVars, srcVars, bufVars, poolVars, chain, chanVars, fftVars>>

FirNext == FirFilters

FirSpec == FirInit /\ [][FirNext]_vars

(***************************************************************************)
(* An FFT of length 4 or 8 with one input of its length: up to MaxNonZero  *)
(* of the real and imaginary parts of its samples are FftUnit or -FftUnit, *)
(* the others zero; an input without imaginary parts is also given as real *)
(* parts alone.                                                            *)
(***************************************************************************)
MinimumLengths == 1..8

\* The arrays of 2 * length parts with at most k parts that are not zero.
RECURSIVE Sparse(_, _)
Sparse(length, k) ==
    IF k = 0 THEN {[n \in 0..(2 * length - 1) |-> 0]}
    ELSE LET fewer == Sparse(length, k - 1)
         IN  fewer \cup {[parts EXCEPT ![n] = v] :
                            parts \in fewer, n \in 0..(2 * length - 1), v \in {-1, 1}}

FftInputs(length) ==
    LET real(parts) == [n \in 0..(length - 1) |-> <<FftUnit * parts[n], 0>>]
        imag(parts) == [n \in 0..(length - 1) |-> <<FftUnit * parts[length + n], 0>>]
    IN  {[real |-> real(parts), imag |-> imag(parts)] : parts \in Sparse(length, MaxNonZero)}
        \cup {[real |-> real(parts), imag |-> NotGiven] :
                parts \in {q \in Sparse(length, MaxNonZero) : \A n \in 0..(length - 1) : q[length + n] = 0}}

FftInit ==
    /\ RadioInit /\ SrcInit("push") /\ BufInit /\ BufferInit(1, 0)
    /\ ThreadInit /\ ChannelInit /\ FIRFilterInit(<<1>>)
    /\ \E minimumLength \in MinimumLengths :
        \E input \in FftInputs(actualLength(minimumLength)) : FFTInit(minimumLength, input)

OtherThanFft == <<radioVars, srcVars, bufVars, poolVars, chain, chanVars, firVars>>

FftTransforms == transform /\ UNCHANGED OtherThanFft
FftReverses == reverse /\ UNCHANGED OtherThanFft

FftNext ==
    \/ FftTransforms
    \/ FftReverses

FftSpec == FftInit /\ [][FftNext]_vars

(***************************************************************************)
(* Properties of the radio.                                                *)
(***************************************************************************)
InProgress == {i \in 1..Len(cmds) : cmds[i].pc # "queued"}

LastCmd == cmds[Len(cmds)]

\* C1: the commands given to the radio run one at a time and in the order
\* of submission: at most one command has been entered and not completed, it
\* is the oldest command that has not completed, the k-th command entered is
\* the k-th submitted, and a source call is only ever issued or settled for
\* that command; so every call a command awaits has settled before the next
\* command takes its first step.
C1_Serialized ==
    /\ Cardinality(InProgress) <= 1
    /\ \A i \in InProgress : i = 1 /\ cmds[i].seq = nStarted
    /\ \A i \in 1..Len(cmds) : cmds[i].pc = "queued" => cmds[i].seq > nStarted
    /\ \A i, j \in 1..Len(cmds) : i < j => cmds[i].seq < cmds[j].seq
    /\ settled.who # 0 => settled.who = nStarted

\* A setFrequency awaits the source while a setParameter submitted after it
\* is queued behind it.
C1_Witness ==
    /\ Len(cmds) >= 2
    /\ cmds[1].type = "frequency" /\ cmds[1].pc = "setCenterFrequency"
    /\ cmds[2].type = "parameter" /\ cmds[2].pc = "queued"

\* C2 (as claimed): close() is not called on a source while a read loop of its
\* session runs, no read is in flight or issued on a source once close() was
\* called on it, and 'stopped' is only emitted with the source closed and the
\* state OFF.
C2_Original ==
    /\ \A s \in Sessions :
          sess[s].closed =>
             /\ sess[s].reads = <<>>
             /\ sess[s].buffersRunning = 0
             /\ \A l \in Loops : sess[s].loop[l] # "reading"
    /\ \A k \in 1..Len(called) :
          called[k].op = "readSamples" => ~sess[called[k].s].closed
    /\ emitted = Event("stopped") => state = "OFF" /\ sess[source].closed

\* C3 (as claimed): a failed read transfer takes the radio to OFF. Once every
\* read loop of the current Transfers has ended by a failure and no command is
\* pending, nothing is left that could change the state.
C3_Original ==
    ( /\ transfers # 0
      /\ \A l \in Loops : sess[transfers].loop[l] = "failed"
      /\ cmds = <<>> )
    => state = "OFF"

\* C4 (as claimed): 'started' is emitted, and the state is PLAYING, only once
\* the two read transfers have been launched, and no read is issued before
\* startReceiving has completed.
C4_Original ==
    /\ emitted = Event("started") =>
          /\ state = "PLAYING"
          /\ sess[transfers].buffersRunning = PARALLEL_BUFFERS
          /\ Len(sess[transfers].reads) = PARALLEL_BUFFERS
    /\ \A s \in Sessions : sess[s].reads # <<>> => sess[s].ss = "done"

\* C5 (as claimed): when the source resolves the setParameter(k, v) of a
\* command processed while PLAYING with nothing, getParameter(k) is v.
C5_Original ==
    [][\A i \in 1..Len(cmds) :
          ( /\ cmds[i].type = "parameter" /\ cmds[i].pc = "setParameter"
            /\ settled' = Resolved(cmds[i].seq, Undefined) )
          => MapGet(parameterValues', cmds[i].name) = cmds[i].value]_vars

\* The calls a start has made on its source when it calls startReceiving:
\* setSampleRate, setCenterFrequency, then one setParameter per entry of the
\* parameter map with the stored value, in the order of the map.
ExpectedStartCalls(s) ==
    <<Call("setSampleRate", s, "", startCalls[1].value),
      Call("setCenterFrequency", s, "", startCalls[2].value)>>
    \o [k \in 1..Len(parameterValues) |->
          Call("setParameter", s, parameterValues[k].name, parameterValues[k].value)]
    \o <<Call("startReceiving", s, "", 0)>>

C6_Inv ==
    \A i \in 1..Len(cmds) :
        cmds[i].type = "start" /\ cmds[i].pc = "startReceiving" =>
            /\ Len(startCalls) = Len(parameterValues) + 3
            /\ startCalls = ExpectedStartCalls(source)

C7_Original ==
    [][/\ ( nSubmitted' = nSubmitted + 1 /\ cmds'[Len(cmds')].type = "frequency" )
          => frequency' = cmds'[Len(cmds')].value
       /\ ( nSubmitted' = nSubmitted + 1 /\ cmds'[Len(cmds')].type = "parameter" )
          => MapGet(parameterValues', cmds'[Len(cmds')].name) = cmds'[Len(cmds')].value
       /\ pendingRate' # 0 => sampleRate' = pendingRate']_vars

\* C8 (as claimed): the rate last given to Radio.setSampleRate is the rate the
\* next start passes to source.setSampleRate.
C8_Original ==
    [][\A k \in 1..Len(called') :
          called'[k].op = "setSampleRate" /\ pendingRate # 0
          => called'[k].value = pendingRate]_vars

\* C9: when the source rejects the call a command awaits, the step that
\* handles it dispatches 'error', leaves the state as it was (PLAYING for a
\* setFrequency or setParameter, OFF for a start), leaves the frequency, the
\* parameter map and every Transfers object untouched, and completes the
\* command, so that the next one is entered.
C9_ErrorHandled ==
    [][\A i \in 1..Len(cmds) :
          ( /\ cmds[i].type \in {"start", "frequency", "parameter"}
            /\ cmds[i].pc # "queued"
            /\ settled' = Rejected(cmds[i].seq) )
          => /\ emitted' = Event("error")
             /\ state' = state
             /\ state = (IF cmds[i].type = "start" THEN "OFF" ELSE "PLAYING")
             /\ frequency' = frequency
             /\ parameterValues' = parameterValues
             /\ sess' = sess
             /\ cmds' = Remove(cmds, i)]_vars

\* The source has rejected the call of a command processed while PLAYING and a
\* command submitted after it is about to be entered.
C9_Witness ==
    /\ settled.kind = "reject" /\ settled.who # 0
    /\ emitted = Event("error")
    /\ state = "PLAYING"
    /\ Len(cmds) >= 1 /\ cmds[1].pc = "queued"

(***************************************************************************)
(* C10: PushSource and RealTimeSource settle the promises readSamples      *)
(* returned in the order the reads were issued: the n-th promise a source  *)
(* settles is the n-th promise it handed out, whatever the sizes of the    *)
(* reads and of the data, so a later read is never settled before an       *)
(* earlier one.  Checked under SourceSpec.                                 *)
(***************************************************************************)
C10_InOrder ==
    /\ nSettled <= nIssued
    /\ \A k \in 1..Len(resolved) : resolved[k].id = nSettled - Len(resolved) + k

\* One delivery of data resolved two reads of different sizes that were in
\* flight together, after the pending-read ring had wrapped around.
C10_Witness ==
    /\ Len(resolved) >= 2
    /\ resolved[1].ok /\ resolved[2].ok
    /\ resolved[1].id >= ReadRingLength
    /\ Len(resolved[1].I) # Len(resolved[2].I)

C12_FullRingThrows ==
    [][/\ RingFull(pendingReads) => nIssued' = nIssued
       /\ threw' => /\ RingFull(pendingReads)
                    /\ pendingReads' = pendingReads
                    /\ nIssued' = nIssued
                    /\ resolved' = <<>>]_vars

\* A readSamples has just thrown on a ring that holds as many unsettled
\* reads as it has slots.
C12_Witness ==
    /\ threw
    /\ RingFull(pendingReads)
    /\ nIssued - nSettled = ReadRingLength

\* The rejections of all the reads pending in the ring pr, oldest first.
AllCanceled(pr) ==
    [k \in 1..pr.size |->
        [id |-> pr.pending[((pr.readPtr + k - 1) % Len(pr.pending)) + 1].id,
         ok |-> FALSE, I |-> <<>>]]

(***************************************************************************)
(* C13: close() of a PushSource or a RealTimeSource rejects every read     *)
(* that is pending, oldest first, and leaves the ring empty: a step that   *)
(* rejects a read rejects all the pending reads in issue order, and so     *)
(* does the step that stops a running RealTimeSource; while a              *)
(* RealTimeSource is not running no read is resolved; and every promise a  *)
(* step settles had not been settled before.  Checked under SourceSpec.    *)
(***************************************************************************)
C13_CloseCancels ==
    [][/\ (\E k \in 1..Len(resolved') : ~resolved'[k].ok)
            => /\ pendingReads.size > 0
               /\ resolved' = AllCanceled(pendingReads)
               /\ pendingReads'.size = 0
       /\ (srcKind = "realtime" /\ running /\ ~running')
            => /\ resolved' = AllCanceled(pendingReads)
               /\ pendingReads'.size = 0
       /\ (srcKind = "realtime" /\ ~running)
            => \A k \in 1..Len(resolved') : ~resolved'[k].ok
       /\ \A k \in 1..Len(resolved') :
            /\ resolved'[k].id > nSettled
            /\ \A j \in 1..Len(resolved') : resolved'[j].id = resolved'[k].id => j = k]_vars

\* A close has just rejected a full ring of pending reads, after an earlier
\* read had been resolved.
C13_Witness ==
    /\ Len(resolved) = ReadRingLength
    /\ \A k \in 1..Len(resolved) : ~resolved[k].ok
    /\ resolved[1].id > 1
    /\ pendingReads.size = 0

\* The samples a ring buffer holds for moveTo, oldest first.
Unconsumed(rb) ==
    [k \in 1..rb.filled |-> rb.buffer[((rb.readPos + k - 1) % Len(rb.buffer)) + 1]]

\* The samples of the blocks of a log, one block after the other.
RECURSIVE Flatten(_)
Flatten(log) == IF log = <<>> THEN <<>> ELSE Head(log).I \o Flatten(Tail(log))

\* The length asked for by the k-th oldest pending read of the ring pr.
PendingLength(pr, k) == pr.pending[((pr.readPtr + k - 1) % Len(pr.pending)) + 1].length

\* The ring of the PushSource holds exactly the newest samples pushed that no
\* read has taken yet: nothing was lost to an overflow.
PushInSync == Unconsumed(ringI) = Samples(nPushed - ringI.filled, ringI.filled)

(***************************************************************************)
(* C14: while the ring of a PushSource has not overflowed, the blocks a    *)
(* step resolves, taken in read-issue order, are the stream samples that   *)
(* follow the last sample delivered, without gap, repetition or            *)
(* reordering; each block of a pending read has the length the read asked  *)
(* for; and whatever a push leaves over is kept for later reads (only      *)
(* startReceiving empties the ring), so the same holds for the next step   *)
(* unless that push overflowed the ring.                                   *)
(* Checked under SourceSpec.                                               *)
(***************************************************************************)
C14_PushPrefix ==
    [][(srcKind = "push" /\ PushInSync) =>
          LET out == Flatten(resolved')
          IN  /\ out = Samples(nPushed - ringI.filled, Len(out))
              /\ \A k \in 1..Len(resolved') :
                    (resolved'[k].ok /\ k <= pendingReads.size)
                        => Len(resolved'[k].I) = PendingLength(pendingReads, k)
              /\ (ringI.filled + (nPushed' - nPushed) - Len(out) <= RingCapacity(ringI))
                    => /\ PushInSync'
                       /\ \/ ringI'.filled = ringI.filled + (nPushed' - nPushed) - Len(out)
                          \/ ringI'.filled = 0 /\ nPushed' = nPushed /\ out = <<>>]_vars

\* One push has just resolved two pending reads and left samples over in the
\* ring, which already held a sample of an earlier push.
C14_Witness ==
    /\ srcKind = "push"
    /\ Len(resolved) >= 2
    /\ \A k \in 1..Len(resolved) : resolved[k].ok
    /\ resolved[1].I[1] > 0
    /\ ringI.filled > 0
    /\ PushInSync

(***************************************************************************)
(* C15 (as claimed): the blocks a RealTimeSource resolves are one          *)
(* contiguous region of the stream: inside a block the samples are         *)
(* consecutive stream samples, and each block starts at the sample that    *)
(* follows the last sample of the block delivered before it.               *)
(***************************************************************************)
C15_Original ==
    [][srcKind = "realtime" =>
          LET out == Flatten(resolved')
          IN  /\ \A j \in 2..Len(out) : out[j] = out[j - 1] + 1
              /\ (out # <<>> /\ lastDelivered # NoSample) => out[1] = lastDelivered + 1]_vars

(***************************************************************************)
(* C16: for any sequence of store and moveTo calls, moveTo(dst) returns    *)
(* min(|dst|, available), copies that many of the oldest unconsumed        *)
(* samples to the front of dst in arrival order and leaves the rest of dst *)
(* alone, decreases available by exactly that count and leaves the         *)
(* remaining samples for the next moveTo; every sample it copies out       *)
(* arrived after the last sample any earlier moveTo copied out, so none is *)
(* returned twice.  Checked under RingSpec.                                *)
(***************************************************************************)
C16_MoveToFifo ==
    [][lastOp' = "moveTo" =>
          LET n == Min(Len(dest'), ringBuffer.filled)
              have == Unconsumed(ringBuffer)
          IN  /\ ret' = n
              /\ ringBuffer'.filled = ringBuffer.filled - n
              /\ \A j \in 1..n : dest'[j] = have[j]
              /\ \A j \in (n + 1)..Len(dest') : dest'[j] = Blank
              /\ Unconsumed(ringBuffer') = SubSeq(have, n + 1, Len(have))
              /\ \A j \in 1..n :
                    dest'[j] > (IF j = 1 THEN lastMoved ELSE dest'[j - 1])]_vars

\* A moveTo has just taken two or more samples out of a ring whose write
\* position had wrapped around, and left others in it.
C16_Witness ==
    /\ lastOp = "moveTo"
    /\ ret >= 2
    /\ dest[1] > BufCapacity
    /\ ringBuffer.filled > 0
    /\ ringBuffer.readPos < ringBuffer.writePos

\* The ring buffer holds the newest samples of the stream stored so far.
HoldsNewest(ring) == Unconsumed(ring) = Samples(nStored - ring.filled, ring.filled)

(***************************************************************************)
(* C17 (as claimed): after store(xs) on a ring of capacity C, whatever the *)
(* length of xs, available is min(C, available before + |xs|) and the ring *)
(* holds the newest samples of the stream: its unconsumed samples are the  *)
(* most recent ones, ending with the last element of xs.                   *)
(***************************************************************************)
C17_Original ==
    [][(lastOp' = "store" /\ HoldsNewest(ringBuffer)) =>
          /\ ringBuffer'.filled =
                Min(RingCapacity(ringBuffer), ringBuffer.filled + (nStored' - nStored))
          /\ Unconsumed(ringBuffer') =
                Samples(nStored' - ringBuffer'.filled, ringBuffer'.filled)]_vars

(***************************************************************************)
(* C18 (as claimed): copyTo(dst) copies the latest min(|dst|, available)   *)
(* samples of the ring to the end of dst, so that the sample stored last   *)
(* is in the last position of dst, for every length of dst, and leaves the *)
(* positions before them alone.                                            *)
(***************************************************************************)
C18_Original ==
    [][(lastOp' = "copyTo" /\ HoldsNewest(ringBuffer)) =>
          LET m == Len(dest')
              n == Min(m, ringBuffer.filled)
          IN  /\ \A j \in 1..n : dest'[m - n + j] = nStored - n + j - 1
              /\ \A j \in 1..(m - n) : dest'[j] = Blank]_vars

(***************************************************************************)
(* C19 (as claimed): copyTo and moveTo use independent cursors: copyTo     *)
(* leaves the ring as it is, and what it writes into dst is what it would  *)
(* write had moveTo never been called since the samples were stored.       *)
(***************************************************************************)
C19_Original ==
    [][lastOp' = "copyTo" =>
          /\ ringBuffer' = ringBuffer
          /\ dest' = RingCopyTo(shadowBuffer, PoolGet(Len(dest')))]_vars

(***************************************************************************)
(* C20: a buffer pool hands out its slots in turns: every get(n) returns a *)
(* view of exactly n elements; it uses the slot after the one the get      *)
(* before it used, going back to the first after the last, so that with N  *)
(* slots the k-th and the (k+N)-th get use the same slot; a slot whose     *)
(* array is shorter than n gets a new array of length n, which is what is  *)
(* returned; a slot whose array is longer is kept and the view is the      *)
(* subarray of its first n elements; no other slot changes and no slot's   *)
(* array ever gets shorter.  Checked under PoolSpec.                       *)
(***************************************************************************)
C20_RoundRobin ==
    [][LET N == Len(buffers)
           k == got'.slot
           old == buffers[k + 1]
           new == buffers'[k + 1]
           n == got'.asked
       IN  /\ got'.len = n /\ got'.offset = 0
           /\ k \in 0..(N - 1)
           /\ k = (IF got = NoView THEN 0 ELSE (got.slot + 1) % N)
           /\ old.len < n =>
                 /\ new.len = n
                 /\ \A j \in 1..N : buffers[j].id # new.id
                 /\ got'.array = new.id /\ got'.whole
           /\ old.len >= n =>
                 /\ new = old
                 /\ got'.array = old.id
                 /\ got'.whole <=> (old.len = n)
           /\ \A j \in 1..N :
                 /\ buffers'[j].len >= buffers[j].len
                 /\ j # k + 1 => buffers'[j] = buffers[j]]_vars

\* A pool of two slots has gone round: the last get came back to the first
\* slot, found the array an earlier get had grown there, and returned a
\* subarray of it.
C20_Witness ==
    /\ Len(buffers) = 2
    /\ got.slot = 0
    /\ ~got.whole
    /\ got.array > 2
    /\ buffers[1].len > got.len
    /\ buffers[2].id > 2

(***************************************************************************)
(* Properties of SingleThread.                                             *)
(***************************************************************************)
Running == {k \in 1..Len(chain) : chain[k].pc = "running"}

\* C21: the functions handed to run execute in strict sequence: a function
\* has been called only if the promise of every run before it is fulfilled,
\* so at most one function is in progress at a time, and the promise of each
\* run is fulfilled with the result of its own function.
C21_StrictSequence ==
    /\ Cardinality(Running) <= 1
    /\ \A k \in 1..Len(chain) :
        /\ chain[k].pc # "chained" => \A j \in 1..(k - 1) : chain[j].pc = "fulfilled"
        /\ chain[k].pc = "fulfilled" => chain[k].value = chain[k].fn.result

\* Three runs of functions with different results: the first returned, the
\* second is in the middle of an await, the third waits for it.
C21_Witness ==
    /\ Len(chain) = 3
    /\ chain[1].pc = "fulfilled" /\ chain[1].value = "a"
    /\ chain[2].pc = "running" /\ chain[2].fn.result = "b" /\ chain[2].awaits = 1
    /\ chain[3].pc = "chained"

(***************************************************************************)
(* Properties of Channel.                                                  *)
(***************************************************************************)
\* C22: the k-th receive call gets the k-th message sent and nothing else,
\* as soon as both calls were made and whichever came first; the promise of
\* a send is resolved exactly with the value its message's ack function was
\* called with; senders and receivers never wait at the same time.
C22_Fifo ==
    /\ \A r \in 1..Len(receives) :
        /\ receives[r].msg = (IF r <= Len(sends) THEN r ELSE 0)
        /\ receives[r].acked # NoValue => sends[receives[r].msg] = receives[r].acked
    /\ \A s \in 1..Len(sends) :
        sends[s] # NoValue => s <= Len(receives) /\ receives[s].acked = sends[s]
    /\ sendQueue = <<>> \/ rcvQueue = <<>>

\* Three messages delivered to three receives, the second acknowledged with
\* "y", the other two not yet.
C22_Witness ==
    /\ Len(sends) = 3 /\ Len(receives) = 3
    /\ receives[3].msg = 3 /\ receives[3].acked = NoValue
    /\ sendQueue = <<>> /\ rcvQueue = <<>>
    /\ sends[2] = "y" /\ sends[1] = NoValue

(***************************************************************************)
(* Properties of FIRFilter.                                                *)
(***************************************************************************)
\* Sample m of the stream, counted from 1, zero before its start.
StreamAt(m) == IF m < 1 THEN 0 ELSE firStream[m]

\* The sum over i of coefs[i] * x[n - (N-1) + i], for 0 <= i < N.
RECURSIVE Convolution(_, _)
Convolution(n, i) ==
    IF i = Len(coefs) THEN 0
    ELSE coefs[i + 1] * StreamAt(n - (Len(coefs) - 1) + i) + Convolution(n, i + 1)

\* C23: after every inPlace the block has the length it came with and holds,
\* for each of its stream positions n, the sum over i of
\* coefs[i] * x[n - (N-1) + i] with zeros before the start of the stream,
\* which is also what one inPlace of a new filter on the concatenation of all
\* blocks leaves at these positions.
C23_BlockwiseIsWhole ==
    LET first == Len(firStream) - Len(firIn)
        whole == FirInPlace(coefs, Zeros(Len(coefs) - 1), firStream).samples
    IN  /\ Len(firOut) = Len(firIn)
        /\ \A j \in 1..Len(firOut) :
            /\ firOut[j] = Convolution(first + j, 0)
            /\ firOut[j] = whole[first + j]

\* A kernel of three taps and a stream of three samples whose last block is
\* the third sample alone: its output is the first tap times the first
\* sample of the stream, which came in an earlier block.
C23_Witness ==
    /\ coefs = <<2, 1, 1>>
    /\ firStream = <<1, 0, 0>>
    /\ firIn = <<0>>
    /\ firOut = <<2>>

(***************************************************************************)
(* Properties of FFT.                                                      *)
(***************************************************************************)
\* The imaginary parts of the input, zero where none were given.
InputImag == IF fftIn.imag = NotGiven THEN ZeroArray(fftLength) ELSE fftIn.imag

RECURSIVE SumUpTo(_, _)
SumUpTo(arr, n) == IF n < 0 THEN ZZero ELSE ZAdd(arr[n], SumUpTo(arr, n - 1))

\* C24: reverse(transform(x)) is x, for an FFT of length 4 or 8 and in exact
\* arithmetic; the direct transform divides by the length (its first output
\* is the mean of the input) and the reverse one does not scale.
C24_RoundTrip ==
    /\ fftFwd # NoOutput =>
        /\ ZTimes(fftLength, fftMem[fftFwd.real][0]) = SumUpTo(fftIn.real, fftLength - 1)
        /\ ZTimes(fftLength, fftMem[fftFwd.imag][0]) = SumUpTo(InputImag, fftLength - 1)
    /\ fftBack # NoOutput =>
        /\ fftMem[fftBack.real] = fftIn.real
        /\ fftMem[fftBack.imag] = InputImag

\* A round trip of length 8 was made for an input whose sample 1 has a real
\* part and whose sample 3 has an imaginary part, through a transform that
\* has values that are not rational.
C24_Witness ==
    /\ fftLength = 8
    /\ fftBack # NoOutput
    /\ fftIn.imag # NotGiven
    /\ fftIn.real[1] = <<FftUnit, 0>>
    /\ fftIn.imag[3] = <<-FftUnit, 0>>
    /\ \E n \in 0..7 : fftMem[fftFwd.real][n][2] # 0

(***************************************************************************)
(* Properties of the read loops of Transfers.                              *)
(***************************************************************************)
\* The readSamples calls made by the sessions 1..s that are not settled yet.
RECURSIVE ReadsInFlight(_)
ReadsInFlight(s) == IF s = 0 THEN 0 ELSE Len(sess[s].reads) + ReadsInFlight(s - 1)

\* The reads outstanding on the source of a radio made with a
\* SimpleProvider, which hands the same source to every start: those of all
\* the sessions.
OutstandingOnSource == ReadsInFlight(MaxSessions)

\* C25: no session has more than PARALLEL_BUFFERS read loops running, no more
\* than 2 readSamples calls made by the radio are outstanding on a source,
\* and a loop calls readSamples either when startStream launches it or in the
\* step in which it has handed the block of its previous read on.
C25_Original ==
    /\ [](\A s \in Sessions : sess[s].buffersRunning <= PARALLEL_BUFFERS)
    /\ [](OutstandingOnSource <= 2)
    /\ [][\A k \in 1..Len(called') :
             (called'[k].op = "readSamples" /\ sess' # sess)
             => \/ sess[called'[k].s].ss = "await"
                \/ settled' = Resolved(0, called'[k].value)]_vars

(***************************************************************************)
(* Properties of the pacing of RealTimeSource.                             *)
(***************************************************************************)
\* C26: the real-time source never runs ahead of the clock: every sample of
\* a block that a tick at stream position curSample resolves has a stream
\* index smaller than curSample.
C26_Original ==
    srcKind = "realtime" =>
        \A k \in 1..Len(resolved) :
            resolved[k].ok => \A j \in 1..Len(resolved[k].I) : resolved[k].I[j] < curSample

(***************************************************************************)
(* Properties of the frequency of the blocks of PushSource.                *)
(***************************************************************************)
\* C27: every block PushSource resolves carries the center frequency that
\* was in effect when each of its samples was pushed, also when the samples
\* waited in the ring while a later push came with another frequency.
C27_Original ==
    srcKind = "push" =>
        \A k \in 1..Len(resolved) :
            resolved[k].ok =>
                \A j \in 1..Len(resolved[k].I) : pushedAt[resolved[k].I[j]] = blockFrequency

\* The command submitted as number q has not completed.
Pending(q) == \E i \in 1..Len(cmds) : cmds[i].seq = q

\* C28, as stated: with a source whose calls all settle, every command
\* submitted to the radio eventually completes, a stop submitted while
\* PLAYING included, also when read transfers of the session have failed
\* before.
C28_Original == \A q \in 1..MaxCmds : Pending(q) ~> ~Pending(q)

(***************************************************************************)
(* Properties of the ring of RealTimeSource.                               *)
(***************************************************************************)
\* The ring holds the samples its bookkeeping says: those numbered from
\* lastSampleInBuffer - available up to lastSampleInBuffer - 1, in order.
RingAsBooked(ring, last) ==
    /\ ring.filled <= RingCapacity(ring)
    /\ Unconsumed(ring) = Samples(last - ring.filled, ring.filled)

\* C29, as stated: at the end of every tick of a RealTimeSource the ring
\* holds exactly the stream samples numbered lastSampleInBuffer - available
\* up to lastSampleInBuffer - 1, in order, and no more than its capacity.
C29_Original ==
    [][(\E d \in 0..MaxAdvance : RealTimeFrame(d)) => RingAsBooked(ringI', lastSampleInBuffer')]_vars

(***************************************************************************)
(* Properties of the loop of RealTimeSource.frame.                         *)
(***************************************************************************)
\* Round k of the loop of the last frame() refilled the ring and continued.
Refilled(k) == frameSteps[k] = "refill"

\* C30, as stated: the loop of every tick ends, and each refill is followed
\* by resolving the head read or by leaving the loop.
C30_Original ==
    /\ ~frameStuck
    /\ \A k \in 1..Len(frameSteps) :
          Refilled(k) => k = Len(frameSteps) \/ frameSteps[k + 1] = "resolve"

\* C30, amended: the loop of every tick ends; a refill is followed by
\* resolving the head read, by leaving the loop, or by one more refill after
\* which the loop is left.
C30_TickEnds ==
    /\ ~frameStuck
    /\ \A k \in 1..Len(frameSteps) :
          Refilled(k) =>
              \/ k = Len(frameSteps)
              \/ frameSteps[k + 1] = "resolve"
              \/ Refilled(k + 1) /\ k + 1 = Len(frameSteps)

\* A tick with a read larger than the ring pending has refilled the ring
\* twice in a row and left the loop, the read still pending.
C30_Witness ==
    /\ srcKind = "realtime"
    /\ ~frameStuck
    /\ frameSteps = <<"refill", "refill">>
    /\ hasPendingRead(pendingReads)
    /\ nextReadSize(pendingReads) > RingCapacity(ringI)
====
